---- MODULE Spec2Model ----
(***************************************************************************)
(* CaseTrack KE: the custody ledger, the acknowledgment protocol, the      *)
(* backend's movement endpoints with the client's synchronisation, the     *)
(* alert engine, the push channel and the API's tokens.  Time is counted   *)
(* in hours.                                                               *)
(*                                                                         *)
(*   Spec        the browser application on its local store, with the      *)
(*               backend unreachable (every API call is rejected and the   *)
(*               rejection is caught, as the try/catch blocks do)          *)
(*   SpecBackend one session's transfers with the backend reachable:       *)
(*               requests in flight, the server's handlers, and            *)
(*               syncWithBackend                                           *)
(*   SpecAlerts  deadlines, file requests, dismissals and alert scans that *)
(*               run to completion, as the clock advances                  *)
(*   SpecScans   two invocations of runAlertCheck advancing from await to  *)
(*               await in any order                                        *)
(*   SpecClients two sessions transferring the same file with the backend  *)
(*               reachable                                                 *)
(*   SpecTransfers  transferFile with every kind of argument               *)
(*   SpecDeadlines  deadlines added and completed                          *)
(*   SpecDismissals alerts dismissed, scans and synchronisations           *)
(*   SpecInbox   the alerts each user is shown                             *)
(*   SpecReports the bottleneck report                                     *)
(*   SpecScenario   a file registered, transferred and acknowledged, with  *)
(*               the backend reachable                                     *)
(*   SpecFailures   scans in which createAlert fails                       *)
(*   SpecMetadata   metadata, status and documents of a file               *)
(*   SpecAcknowledge  acknowledgments, the server and synchronisations     *)
(*   SpecRegistration registrations, deletions and synchronisations        *)
(*   SpecRecords the server restarted, files deleted, synchronisations     *)
(*   SpecClosed  transfers of Closed files                                 *)
(*   SpecRecipients transfers to active, inactive and unknown users        *)
(*   SpecPending transfers, acknowledgments and scans a day apart          *)
(*   SpecBottlenecks  the bottleneck report over files of every status     *)
(*   SpecLocation   deadlines and scans on a synchronised store            *)
(*   SpecPushes  the WebSocket registry and the pushes of the server       *)
(*   SpecAccess  logins, the second factor and authenticateToken           *)
(***************************************************************************)
EXTENDS Integers, Sequences, FiniteSets, TLC

VARIABLES
    files,        \* localStorage casetrack_files: sequence of file records
    movements,    \* localStorage casetrack_movements: the local movement log
    deadlines,    \* localStorage casetrack_deadlines
    alerts,       \* localStorage casetrack_alerts
    currentUser,  \* CaseTrackAuth.currentUser (a userId, or Null)
    clock,        \* Date.now(), in hours
    result,       \* what the last operation that returns a result returned
    scan,         \* the runAlertCheck invocations in progress
    online,       \* whether fetch() reaches the backend
    net,          \* API requests sent and not yet handled by the server
    srvFiles,     \* server table files: fileId -> currentCustodian, or Absent
    srvMovements, \* server table movements, in insertion order
    serverUp,     \* the server process is running
    sync,         \* the syncWithBackend call in progress
    peer,         \* the local store of a second browser session
    sockets,      \* the WebSocket connections the server has accepted
    clients,      \* the server's map clients: userId -> socket, or Absent
    pushed,       \* push messages sent to a socket and not yet handled there
    tokens,       \* the JSON Web Tokens the server has signed
    admitted      \* what authenticateToken did with the last request

vars == <<files, movements, deadlines, alerts, currentUser, clock, result, scan,
          online, net, srvFiles, srvMovements, serverUp, sync, peer,
          sockets, clients, pushed, tokens, admitted>>

\* what the ledger operations leave alone: the alerts, and the backend with
\* the other session
alertSide == <<deadlines, alerts, scan>>
channel   == <<sockets, clients, pushed>>
access    == <<tokens, admitted>>
backend   == <<online, srvFiles, srvMovements, serverUp, sync, peer, channel,
               access>>

----------------------------------------------------------------------------
(* Values *)

Null      == "null"
Undefined == "undefined"
Absent    == "absent"
NoTime    == 0 - 1

\* bounds of the model
MaxMovements == 2
MaxDeadlines == 2
MaxAlerts    == 5
MaxClock     == 24
MaxRequests  == 2
MaxDismissed == 1
MaxInFlight  == 1
LedgerHorizon == 1
MaxLinked    == 2

\* units
HoursPerDay == 24

\* AlertEngine.CONFIG, and the hours a transfer may wait for acknowledgment
deadlineWarningDays     == {7, 3, 1}
overdueThresholdDays    == 7
escalationThresholdDays == 14
AcknowledgeWithinHours  == 24

\* the users of the firm: a clerk, an advocate and a partner, all active,
\* and an advocate whose record says active: false
UserIds == {"U1", "U2", "U3"}
InactiveUsers == {"U4"}
UnknownUser == "U9"
UserOrder == <<"U1", "U2", "U3", "U4">>

Role(u) ==
    CASE u = "U1" -> "Clerk"
      [] u = "U2" -> "Advocate"
      [] u = "U3" -> "Partner"
      [] u = "U4" -> "Advocate"
      [] OTHER    -> Null

FileIds == {"F1", "F2"}
UnknownFile == "F9"

\* CaseTrackDB.MOVEMENT_PURPOSES, abridged to two of its entries, and the one
\* the callers choose
MOVEMENT_PURPOSES == {"Filing", "Return to Custodian"}
PurposeInputs == {"Filing"}

\* the instants the clock visits
Instants == {0, 1, 24}

\* the due dates a deadline is given
DueDates == {0, 26, 96, 168}

----------------------------------------------------------------------------
(* Sequence helpers *)

Range(s) == {s[i] : i \in DOMAIN s}

MinOf(S) == CHOOSE x \in S : \A y \in S : x <= y
MaxOf(S) == CHOOSE x \in S : \A y \in S : x >= y

\* Array.findIndex, 0 for -1: the first index of s among `hits`
FirstOf(hits) == IF hits = {} THEN 0 ELSE MinOf(hits)

RECURSIVE SelectIdx(_, _, _)
\* Array.filter: the elements of s at the indices in `keep`, in order
SelectIdx(s, i, keep) ==
    IF i > Len(s) THEN <<>>
    ELSE (IF i \in keep THEN <<s[i]>> ELSE <<>>) \o SelectIdx(s, i + 1, keep)

----------------------------------------------------------------------------
(* assignedAdvocates is an array of userIds in a file registered locally and  *)
(* the text of that array ("U1,U2", the column's type) in a file read back    *)
(* from the server: [text, ids].                                              *)

Advocates(ids) == [text |-> FALSE, ids |-> ids]
AsText(adv)    == [text |-> TRUE, ids |-> adv.ids]

\* file.assignedAdvocates?.[0] || null: the first element of the array, the
\* first character of the text
firstAdvocate(f) ==
    IF f.assignedAdvocates.ids = <<>> THEN Null
    ELSE IF f.assignedAdvocates.text THEN "U"
    ELSE f.assignedAdvocates.ids[1]

\* file.assignedAdvocates.includes(userId): membership, or substring
includesAdvocate(f, userId) == userId \in Range(f.assignedAdvocates.ids)

\* the files registered before the first step: F1 held by the clerk for the
\* advocate, with one digital document linked, F2 held by the advocate with
\* nobody assigned and nothing linked (linkedDigitalFiles as its length)
File(id, custodian, advocates, linked) ==
    [fileId |-> id, status |-> "Active", currentCustodian |-> custodian,
     assignedAdvocates |-> Advocates(advocates), linkedDigitalFiles |-> linked]

RegisteredFiles ==
    <<File("F1", "U1", <<"U2">>, 1), File("F2", "U2", <<>>, 0)>>

----------------------------------------------------------------------------
(* CaseTrackAuth *)

PERMISSIONS(role) ==
    CASE role = "Clerk"    -> {"registerFiles", "logMovements", "updateFileStatus",
                               "viewAssignedFiles", "requestFiles"}
      [] role = "Advocate" -> {"viewAssignedFiles", "requestFiles", "uploadDocuments"}
      [] role = "Partner"  -> {"registerFiles", "logMovements", "updateFileStatus",
                               "viewAssignedFiles", "viewAllFiles", "requestFiles",
                               "uploadDocuments", "generateReports", "viewAuditLogs",
                               "manageUsers"}
      [] OTHER             -> {}

hasPermission(permission) ==
    IF currentUser = Null THEN FALSE
    ELSE permission \in PERMISSIONS(Role(currentUser))

\* requirePermission throws unless logged in and permitted
requirePermission(permission) == currentUser # Null /\ hasPermission(permission)

\* the message of what it throws
permissionError ==
    IF currentUser = Null THEN "You must be logged in"
    ELSE "Your role is not authorized"

\* currentUser?.userId
currentUserId == IF currentUser = Null THEN Undefined ELSE currentUser

login(u) ==
    /\ u \in UserIds
    /\ currentUser' = u
    /\ UNCHANGED <<files, movements, clock, result, net, alertSide, backend>>

logout ==
    /\ currentUser # Null
    /\ currentUser' = Null
    /\ UNCHANGED <<files, movements, clock, result, net, alertSide, backend>>

\* CaseTrackAuth.getVisibleFiles, as the set of visible fileIds
getVisibleFiles ==
    IF currentUser = Null THEN {}
    ELSE IF hasPermission("viewAllFiles") THEN {f.fileId : f \in Range(files)}
    ELSE {f.fileId : f \in {g \in Range(files) :
              \/ g.currentCustodian = currentUser
              \/ includesAdvocate(g, currentUser)}}

\* CaseTrackAuth.canViewFile(file)
canViewFile(f) ==
    /\ currentUser # Null
    /\ \/ hasPermission("viewAllFiles")
       \/ f.currentCustodian = currentUser
       \/ includesAdvocate(f, currentUser)

----------------------------------------------------------------------------
(* CaseTrackDB: files and movements *)

fileIndex(fs, fileId) == FirstOf({i \in DOMAIN fs : fs[i].fileId = fileId})

\* getFile(fileId), used where the file is known to exist
getFile(fileId) == files[fileIndex(files, fileId)]

hasFile(fileId) == fileIndex(files, fileId) # 0

\* getUser(userId): the record of the user, active or not
getUser(userId) ==
    IF userId \in UserIds \cup InactiveUsers THEN userId ELSE Null

getUsersByRole(role) ==
    SelectIdx(UserOrder, 1, {i \in DOMAIN UserOrder : Role(UserOrder[i]) = role})

\* updateFile writing to the head of the list instead of the file found
updateFileFirst(fs, fileId, custodian) ==
    [fs EXCEPT ![1] = [@ EXCEPT !.currentCustodian = custodian]]

\* updateFile(fileId, {currentCustodian}): the first file with that id, if any
updateFile(fs, fileId, custodian) ==
    LET i == fileIndex(fs, fileId)
    IN  IF i = 0 THEN fs
        ELSE [fs EXCEPT ![i] = [@ EXCEPT !.currentCustodian = custodian]]

\* getFileMovements(fileId), as indices
movementsOf(ms, fileId) == {i \in DOMAIN ms : ms[i].fileId = fileId}

newMovement(d) ==
    [movementId     |-> clock,
     fileId         |-> d.fileId,
     fromCustodian  |-> IF d.fromCustodian \in {Undefined, Null, ""}
                        THEN Null ELSE d.fromCustodian,
     toCustodian    |-> d.toCustodian,
     timestamp      |-> clock,
     purpose        |-> IF d.purpose = "" THEN "Movement" ELSE d.purpose,
     acknowledged   |-> FALSE,
     acknowledgedAt |-> NoTime,
     acknowledgedBy |-> Null]

\* APIClient.request: sent when the backend is reachable, else rejected (and caught)
send(req) == net' = IF online /\ serverUp THEN net \cup {req} ELSE net

logMovement(d) ==
    /\ movements' = Append(movements, newMovement(d))
    /\ files' = updateFile(files, d.fileId, d.toCustodian)
    /\ send([kind |-> "logMovement", body |-> newMovement(d)])

movementIndex(ms, movementId) ==
    FirstOf({i \in DOMAIN ms : ms[i].movementId = movementId})

\* the local part of acknowledgeMovement: the first movement with that id
acknowledgeMovementLocal(ms, movementId, userId) ==
    LET i == movementIndex(ms, movementId)
    IN  IF i = 0 THEN ms
        ELSE [ms EXCEPT ![i] = [@ EXCEPT !.acknowledged = TRUE,
                                         !.acknowledgedAt = clock,
                                         !.acknowledgedBy = userId]]

\* getMovement(movementId): the first movement with that id; hasMovement is
\* its result being non-null
hasMovement(movementId) == movementIndex(movements, movementId) # 0

getMovement(movementId) == movements[movementIndex(movements, movementId)]

acknowledgeMovement(movementId, userId) ==
    IF movementIndex(movements, movementId) = 0
    THEN UNCHANGED <<movements, net>>
    ELSE /\ movements' = acknowledgeMovementLocal(movements, movementId, userId)
         /\ send([kind |-> "acknowledgeMovement", id |-> movementId])

----------------------------------------------------------------------------
(* MovementTracker *)

Returned(op, success, error) ==
    result' = [op |-> op, success |-> success, error |-> error]

Succeed(op) == Returned(op, TRUE, "")

\* an early `return { success: false, error }`, or an exception the operation
\* catches and returns as { success: false, error: e.message }
Fail(op, error) ==
    /\ Returned(op, FALSE, error)
    /\ UNCHANGED <<files, movements, net>>

transferFileBody(op, fileId, toCustodianId, purpose) ==
    IF ~requirePermission("logMovements") THEN Fail(op, permissionError)
    ELSE IF ~hasFile(fileId) THEN Fail(op, "File not found")
    ELSE IF getUser(toCustodianId) = Null THEN Fail(op, "Target custodian not found")
    ELSE IF purpose # "" /\ purpose \notin MOVEMENT_PURPOSES
         THEN Fail(op, "Invalid movement purpose")
    ELSE /\ logMovement([fileId        |-> fileId,
                         fromCustodian |-> getFile(fileId).currentCustodian,
                         toCustodian   |-> toCustodianId,
                         purpose       |-> purpose])
         /\ Succeed(op)

transferFile(fileId, toCustodianId, purpose) ==
    /\ Len(movements) < MaxMovements
    /\ transferFileBody("transferFile", fileId, toCustodianId, purpose)
    /\ UNCHANGED <<currentUser, clock, alertSide, backend>>

\* checkInFile: the file goes back to the first clerk
checkInFile(fileId) ==
    /\ Len(movements) < MaxMovements
    /\ IF ~hasFile(fileId) THEN Fail("checkInFile", "File not found")
       ELSE IF getUsersByRole("Clerk") = <<>>
       THEN Fail("checkInFile", "No clerks available to receive file")
       ELSE transferFileBody("checkInFile", fileId, getUsersByRole("Clerk")[1],
                             "Return to Custodian")
    /\ UNCHANGED <<currentUser, clock, alertSide, backend>>

\* checkOutFile is transferFile
checkOutFile(fileId, toUserId, purpose) ==
    /\ Len(movements) < MaxMovements
    /\ transferFileBody("checkOutFile", fileId, toUserId, purpose)
    /\ UNCHANGED <<currentUser, clock, alertSide, backend>>

\* the recipient check asking for a permission every role has
mayAcknowledgeViewers(movement) ==
    ~(movement.toCustodian # currentUserId /\ ~hasPermission("viewAssignedFiles"))

\* the recipient check of acknowledgeReceipt
mayAcknowledge(movement) ==
    ~(movement.toCustodian # currentUserId /\ ~hasPermission("viewAllFiles"))

acknowledgeReceiptBody(op, movementId) ==
    IF ~hasMovement(movementId)
    THEN Fail(op, "Movement record not found")
    ELSE IF ~mayAcknowledge(getMovement(movementId))
    THEN Fail(op, "Only the recipient can acknowledge this transfer")
    ELSE /\ acknowledgeMovement(movementId, currentUserId)
         /\ Succeed(op)
         /\ UNCHANGED files

MovementTracker_acknowledgeReceipt(movementId) ==
    /\ acknowledgeReceiptBody("acknowledgeReceipt", movementId)
    /\ UNCHANGED <<currentUser, clock, alertSide, backend>>

\* getMyPendingAcknowledgments: the current user's unacknowledged movements,
\* most recent first; `pendingFor` is the one processQRScan's find() meets first
pendingIdx(fileId) ==
    {i \in DOMAIN movements :
        /\ ~movements[i].acknowledged
        /\ currentUser # Null
        /\ movements[i].toCustodian = currentUser
        /\ movements[i].fileId = fileId}

pendingFor(fileId) ==
    LET newest == MaxOf({movements[i].timestamp : i \in pendingIdx(fileId)})
    IN  movements[MinOf({i \in pendingIdx(fileId) : movements[i].timestamp = newest})]

\* processQRScan(qrData, 'acknowledge')
processQRScan_acknowledge(fileId) ==
    /\ IF ~hasFile(fileId) THEN Fail("processQRScan", "File not found from QR code")
       ELSE IF pendingIdx(fileId) = {}
            THEN Fail("processQRScan", "No pending acknowledgment for this file")
       ELSE acknowledgeReceiptBody("processQRScan", pendingFor(fileId).movementId)
    /\ UNCHANGED <<currentUser, clock, alertSide, backend>>

\* MovementTracker.getFileHistory(fileId): the movements of the file in the
\* order of the log, for who may view the file
getFileHistory(fileId) ==
    IF ~hasFile(fileId) \/ ~canViewFile(getFile(fileId)) THEN <<>>
    ELSE SelectIdx(movements, 1, movementsOf(movements, fileId))

----------------------------------------------------------------------------
(* FileManager.registerFile and CaseTrackDB.createFile *)

\* generateFileId: CT-<year>-<files of the year + 1>, the ids in this order
FileIdOrder == <<"F1", "F2">>

generateFileId == FileIdOrder[Len(files) + 1]

\* createFile: the file is saved locally, then POST /api/files is sent; the
\* initial movement follows when that request is answered
createFile(custodian) ==
    /\ files' = Append(files, File(generateFileId, custodian, <<>>, 0))
    /\ send([kind |-> "registerFile",
             body |-> File(generateFileId, custodian, <<>>, 0)])

registerFile(custodian) ==
    /\ Len(files) < Len(FileIdOrder)
    /\ IF ~requirePermission("registerFiles")
       THEN Fail("registerFile", permissionError)
       ELSE IF custodian = ""
       THEN Fail("registerFile", "Initial custodian must be specified")
       ELSE /\ createFile(custodian)
            /\ Succeed("registerFile")
            /\ UNCHANGED movements
    /\ UNCHANGED <<currentUser, clock, alertSide, backend>>

\* createFile after `await APIClient.registerFile`: with the answer 201 the
\* initial movement is sent to the backend, without a movementId
createFile_registered(reply) ==
    /\ reply \in net
    /\ reply.kind = "fileRegistered"
    /\ net' = (net \ {reply}) \cup
              (IF online /\ serverUp
               THEN {[kind |-> "logMovement",
                      body |-> [fileId        |-> reply.body.fileId,
                                fromCustodian |-> Null,
                                toCustodian   |-> reply.body.currentCustodian,
                                purpose       |-> "File Creation / Initial Registration"]]}
               ELSE {})
    /\ UNCHANGED <<files, movements, deadlines, alerts, currentUser, clock,
                   result, scan, backend>>

----------------------------------------------------------------------------
(* CaseTrackKE: the application's form handlers *)

\* handleMovementSubmit: the form offers the visible Active files, the users
\* and the purposes; the movement is logged without further checks
handleMovementSubmit(fileId, toCustodianId, purpose) ==
    /\ Len(movements) < MaxMovements
    /\ fileId \in getVisibleFiles
    /\ getFile(fileId).status = "Active"
    /\ toCustodianId \in UserIds
    /\ purpose \in MOVEMENT_PURPOSES
    /\ logMovement([fileId        |-> fileId,
                    fromCustodian |-> currentUserId,
                    toCustodian   |-> toCustodianId,
                    purpose       |-> purpose])
    /\ Succeed("handleMovementSubmit")
    /\ UNCHANGED <<currentUser, clock, alertSide, backend>>

\* CaseTrackKE.acknowledgeReceipt: currentUser.userId throws with no user
CaseTrackKE_acknowledgeReceipt(movementId) ==
    /\ IF currentUser = Null
       THEN Fail("CaseTrackKE.acknowledgeReceipt", "TypeError")
       ELSE /\ acknowledgeMovement(movementId, currentUser)
            /\ IF movementIndex(movements, movementId) # 0
               THEN Succeed("CaseTrackKE.acknowledgeReceipt")
               ELSE Returned("CaseTrackKE.acknowledgeReceipt", FALSE, "null")
            /\ UNCHANGED files
    /\ UNCHANGED <<currentUser, clock, alertSide, backend>>

----------------------------------------------------------------------------
(* The clock *)

Tick(t) ==
    /\ t \in Instants
    /\ t > clock
    /\ t <= MaxClock
    /\ clock' = t
    /\ UNCHANGED <<files, movements, currentUser, result, net, alertSide, backend>>

----------------------------------------------------------------------------
(* CaseTrackDB: deadlines and alerts *)

ledgerSide == <<files, movements, currentUser, net>>

\* completedAt and completedBy are NoTime and Null until the deadline gets them
newDeadline(fileId, dueDate) ==
    [deadlineId |-> clock, fileId |-> fileId, dueDate |-> dueDate,
     status |-> "Pending", completedAt |-> NoTime, completedBy |-> Null]

createDeadline(fileId, dueDate) ==
    /\ Len(deadlines) < MaxDeadlines
    /\ deadlines' = Append(deadlines, newDeadline(fileId, dueDate))
    /\ send([kind |-> "addDeadline", body |-> newDeadline(fileId, dueDate)])
    /\ UNCHANGED <<files, movements, currentUser, clock, result, alerts, scan,
                   backend>>

deadlineIndex(ds, deadlineId) ==
    FirstOf({i \in DOMAIN ds : ds[i].deadlineId = deadlineId})

\* updateDeadline(deadlineId, updates): null for a deadline that is not there,
\* InvalidState thrown for one that is Completed (a Completed deadline is
\* immutable), else the first deadline with that id takes the updates
updateDeadline(ds, deadlineId, updates) ==
    LET i == deadlineIndex(ds, deadlineId)
    IN  IF i = 0 THEN [found |-> FALSE, thrown |-> "", deadlines |-> ds]
        ELSE IF ds[i].status = "Completed"
        THEN [found |-> TRUE, thrown |-> "InvalidState", deadlines |-> ds]
        ELSE [found |-> TRUE, thrown |-> "",
              deadlines |-> [ds EXCEPT ![i] =
                  [@ EXCEPT !.status = updates.status,
                            !.completedAt = updates.completedAt,
                            !.completedBy = updates.completedBy]]]

\* FileManager.completeDeadline taking whatever updateDeadline returns for a
\* deadline
completeDeadlineUnchecked(deadlineId) ==
    LET updated == updateDeadline(deadlines, deadlineId,
                       [status |-> "Completed", completedAt |-> clock,
                        completedBy |-> currentUserId])
    IN  /\ deadlines' = updated.deadlines
        /\ IF updated.thrown # ""
           THEN Returned("completeDeadline", FALSE, updated.thrown)
           ELSE Succeed("completeDeadline")
        /\ UNCHANGED <<ledgerSide, clock, alerts, scan, backend>>

\* FileManager.completeDeadline
completeDeadline(deadlineId) ==
    LET updated == updateDeadline(deadlines, deadlineId,
                       [status |-> "Completed", completedAt |-> clock,
                        completedBy |-> currentUserId])
    IN  /\ deadlines' = updated.deadlines
        /\ IF updated.thrown # ""
           THEN Returned("completeDeadline", FALSE, updated.thrown)
           ELSE IF ~updated.found
           THEN Returned("completeDeadline", FALSE, "Deadline not found")
           ELSE Succeed("completeDeadline")
        /\ UNCHANGED <<ledgerSide, clock, alerts, scan, backend>>

\* the data of an alert: deadlineId is NoTime where the code gives none
Alert(type, severity, fileId, targetUserId, deadlineId) ==
    [type |-> type, severity |-> severity, fileId |-> fileId,
     targetUserId |-> targetUserId, deadlineId |-> deadlineId]

\* createAlert(alertData): the alert joins the local list, not dismissed,
\* under an alertId of its own
createAlert(al, alertData) ==
    Append(al, [alertId      |-> Len(al) + 1,
                type         |-> alertData.type,
                severity     |-> alertData.severity,
                fileId       |-> alertData.fileId,
                targetUserId |-> alertData.targetUserId,
                deadlineId   |-> alertData.deadlineId,
                dismissed    |-> FALSE])

alertIndex(al, alertId) == FirstOf({i \in DOMAIN al : al[i].alertId = alertId})

dismissAlert(alertId) ==
    /\ Cardinality({i \in DOMAIN alerts : alerts[i].dismissed}) < MaxDismissed
    /\ alertIndex(alerts, alertId) # 0
    /\ ~alerts[alertIndex(alerts, alertId)].dismissed
    /\ alerts' = [alerts EXCEPT ![alertIndex(alerts, alertId)].dismissed = TRUE]
    /\ UNCHANGED <<ledgerSide, clock, result, deadlines, scan, backend>>

\* getActiveAlerts without the filter on the user
getActiveAlertsOfAll(al, userId) ==
    SelectIdx(al, 1, {i \in DOMAIN al : ~al[i].dismissed})

\* getActiveAlerts(userId = null): the alerts not dismissed, and with a userId
\* those for that user or for nobody in particular (the sort by createdAt, a
\* field createAlert sets, reorders the list and is left out)
getActiveAlerts(al, userId) ==
    SelectIdx(al, 1, {i \in DOMAIN al :
        /\ ~al[i].dismissed
        /\ userId # Null => (al[i].targetUserId = userId
                                \/ al[i].targetUserId = Null)})

\* AlertEngine.getMyAlerts
getMyAlerts ==
    IF currentUser = Null THEN <<>>
    ELSE IF Role(currentUser) = "Partner" THEN getActiveAlerts(alerts, Null)
    ELSE getActiveAlerts(alerts, currentUser)

\* MovementTracker.requestFile: the alert is created without asking whether
\* one like it is active
requestFile(fileId) ==
    /\ Cardinality({i \in DOMAIN alerts : alerts[i].type = "file_request"})
          < MaxRequests
    /\ Len(alerts) < MaxAlerts
    /\ IF ~requirePermission("requestFiles")
       THEN Fail("requestFile", permissionError) /\ UNCHANGED alerts
       ELSE IF ~hasFile(fileId)
       THEN Fail("requestFile", "File not found") /\ UNCHANGED alerts
       ELSE /\ alerts' = createAlert(alerts,
                   Alert("file_request", "info", fileId,
                         getFile(fileId).currentCustodian, NoTime))
            /\ Succeed("requestFile")
            /\ UNCHANGED <<files, movements, net>>
    /\ UNCHANGED <<currentUser, clock, deadlines, scan, backend>>

----------------------------------------------------------------------------
(* AlertEngine *)

\* the search telling the alerts of one deadline from those of another
hasActiveOfDeadline(al, alertData) ==
    \E i \in DOMAIN al :
        /\ al[i].type = alertData.type
        /\ al[i].fileId = alertData.fileId
        /\ al[i].targetUserId = alertData.targetUserId
        /\ al[i].deadlineId = alertData.deadlineId
        /\ ~al[i].dismissed

\* the search counting dismissed alerts too
hasAlert(al, alertData) ==
    \E i \in DOMAIN al :
        /\ al[i].type = alertData.type
        /\ al[i].fileId = alertData.fileId
        /\ al[i].targetUserId = alertData.targetUserId

\* the alert existing.find() of createAlertIfNew looks for
hasActive(al, alertData) ==
    \E i \in DOMAIN al :
        /\ al[i].type = alertData.type
        /\ al[i].fileId = alertData.fileId
        /\ al[i].targetUserId = alertData.targetUserId
        /\ ~al[i].dismissed

\* createAlertIfNew bringing the alert it finds up to the severity asked for
createAlertOrRefresh(al, alertData) ==
    IF hasActive(al, alertData)
    THEN [i \in DOMAIN al |->
            IF /\ al[i].type = alertData.type
               /\ al[i].fileId = alertData.fileId
               /\ al[i].targetUserId = alertData.targetUserId
               /\ ~al[i].dismissed
            THEN [al[i] EXCEPT !.severity = alertData.severity]
            ELSE al[i]]
    ELSE createAlert(al, alertData)

\* createAlertIfNew without its existence check
createAlertAnyway(al, alertData) == createAlert(al, alertData)

createAlertIfNew(al, alertData) ==
    IF hasActive(al, alertData) THEN al ELSE createAlert(al, alertData)

RECURSIVE createAll(_, _)
\* the calls of createAlertIfNew a pass makes, one after the other
createAll(al, calls) ==
    IF calls = <<>> THEN al
    ELSE createAll(createAlertIfNew(al, Head(calls)), Tail(calls))

\* Math.floor instead of Math.ceil
daysUntilFloor(dueDate, now) == (dueDate - now) \div HoursPerDay

\* Math.ceil((dueDate - now) / day): the ceiling of a negative fraction of a
\* day is -0, which is not < 0
daysUntil(dueDate, now) == 0 - ((now - dueDate) \div HoursPerDay)

\* warning wherever daysUntil <= 3
urgencyWarningFirst(days) == IF days <= 3 THEN "warning" ELSE "info"

urgency(days) ==
    IF days = 1 THEN "critical" ELSE IF days <= 3 THEN "warning" ELSE "info"

\* `file.assignedAdvocates &&`: an array, or a text that is not empty
hasAdvocatesValue(f) ==
    ~(f.assignedAdvocates.text /\ f.assignedAdvocates.ids = <<>>)

escalations(fileId, deadlineId) ==
    [i \in DOMAIN getUsersByRole("Partner") |->
        Alert("escalation", "critical", fileId, getUsersByRole("Partner")[i],
              deadlineId)]

\* the calls checkDeadlineAlerts makes for one Pending deadline
deadlineCalls(d, now) ==
    IF ~hasFile(d.fileId) THEN <<>>
    ELSE IF daysUntil(d.dueDate, now) < 0
    THEN <<Alert("deadline_overdue", "critical", d.fileId,
                 firstAdvocate(getFile(d.fileId)), d.deadlineId)>>
         \o escalations(d.fileId, d.deadlineId)
    ELSE IF daysUntil(d.dueDate, now) \in deadlineWarningDays
    THEN <<Alert("deadline_upcoming", urgency(daysUntil(d.dueDate, now)),
                 d.fileId, firstAdvocate(getFile(d.fileId)), d.deadlineId)>>
         \o (IF /\ hasAdvocatesValue(getFile(d.fileId))
                 /\ ~includesAdvocate(getFile(d.fileId),
                                      getFile(d.fileId).currentCustodian)
              THEN <<Alert("file_location_warning", "warning", d.fileId,
                           getFile(d.fileId).currentCustodian, NoTime)>>
              ELSE <<>>)
    ELSE <<>>

pendingDeadlines ==
    SelectIdx(deadlines, 1,
              {i \in DOMAIN deadlines : deadlines[i].status = "Pending"})

RECURSIVE deadlinesCalls(_, _)
deadlinesCalls(ds, now) ==
    IF ds = <<>> THEN <<>>
    ELSE deadlineCalls(Head(ds), now) \o deadlinesCalls(Tail(ds), now)

checkDeadlineAlerts(now) == deadlinesCalls(pendingDeadlines, now)

\* Math.round(hours / 24)
daysHeld(hours) == (2 * hours + HoursPerDay) \div (2 * HoursPerDay)

\* the movement of a file that sorts first by timestamp, newest first
lastMovement(fileId) ==
    LET own == movementsOf(movements, fileId)
        top == MaxOf({movements[i].timestamp : i \in own})
    IN  movements[MinOf({i \in own : movements[i].timestamp = top})]

\* whether getBottleneckReport(thresholdDays) lists the file
isBottleneck(f, thresholdDays, now) ==
    /\ f.status = "Active"
    /\ movementsOf(movements, f.fileId) # {}
    /\ daysHeld(now - lastMovement(f.fileId).timestamp) >= thresholdDays

\* high from 15 days on
riskLevelAbove(days) ==
    IF days > 14 THEN "high" ELSE IF days >= 7 THEN "medium" ELSE "low"

\* daysHeld >= 14 ? 'high' : daysHeld >= 7 ? 'medium' : 'low'
riskLevel(days) ==
    IF days >= 14 THEN "high" ELSE IF days >= 7 THEN "medium" ELSE "low"

bottleneckItem(f, now) ==
    [file |-> f, currentCustodian |-> f.currentCustodian,
     daysHeld |-> daysHeld(now - lastMovement(f.fileId).timestamp),
     riskLevel |-> riskLevel(daysHeld(now - lastMovement(f.fileId).timestamp))]

\* the report in the order of the files
unsorted(items) == items

RECURSIVE sortByDaysHeld(_)
\* sort((a, b) => b.daysHeld - a.daysHeld)
sortByDaysHeld(items) ==
    IF items = <<>> THEN <<>>
    ELSE LET top   == MaxOf({items[i].daysHeld : i \in DOMAIN items})
             first == MinOf({i \in DOMAIN items : items[i].daysHeld = top})
         IN  <<items[first]>>
             \o sortByDaysHeld(SelectIdx(items, 1, DOMAIN items \ {first}))

getBottleneckReport(thresholdDays, now) ==
    sortByDaysHeld(
        SelectIdx([i \in DOMAIN files |-> IF isBottleneck(files[i], thresholdDays, now)
                                          THEN bottleneckItem(files[i], now)
                                          ELSE [daysHeld |-> 0]],
                  1, {i \in DOMAIN files : isBottleneck(files[i], thresholdDays, now)}))

\* Reports.getBottleneckReport(thresholdDays): the report, for who may
\* generate reports
Reports_getBottleneckReport(thresholdDays) ==
    /\ result' = [op          |-> "getBottleneckReport",
                  success     |-> TRUE,
                  error       |-> "",
                  bottlenecks |-> IF hasPermission("generateReports")
                                  THEN getBottleneckReport(thresholdDays, clock)
                                  ELSE <<>>]
    /\ UNCHANGED <<files, movements, currentUser, clock, net, alertSide, backend>>

\* checkOverdueFiles with a warning whatever the days held
overdueCallsWarning(item) ==
    <<Alert("file_overdue_at_custodian", "warning",
            item.file.fileId, item.currentCustodian, NoTime)>>
    \o (IF item.daysHeld >= escalationThresholdDays
        THEN escalations(item.file.fileId, NoTime) ELSE <<>>)

\* the calls checkOverdueFiles makes for one item of the report
overdueCalls(item) ==
    <<Alert("file_overdue_at_custodian",
            IF item.daysHeld >= escalationThresholdDays THEN "critical" ELSE "warning",
            item.file.fileId, item.currentCustodian, NoTime)>>
    \o (IF item.daysHeld >= escalationThresholdDays
        THEN escalations(item.file.fileId, NoTime) ELSE <<>>)

RECURSIVE itemsCalls(_)
itemsCalls(items) ==
    IF items = <<>> THEN <<>>
    ELSE overdueCalls(Head(items)) \o itemsCalls(Tail(items))

checkOverdueFiles(now) ==
    itemsCalls(getBottleneckReport(overdueThresholdDays, now))

getUnacknowledgedMovements ==
    SelectIdx(movements, 1, {i \in DOMAIN movements : ~movements[i].acknowledged})

\* the alert only once more than 24 hours have passed
unacknowledgedCallsAfter(m, now) ==
    IF now - m.timestamp > AcknowledgeWithinHours /\ hasFile(m.fileId)
    THEN <<Alert("movement_unacknowledged", "warning", m.fileId, m.toCustodian,
                 NoTime)>>
    ELSE <<>>

\* the calls checkUnacknowledgedMovements makes for one unacknowledged movement
unacknowledgedCalls(m, now) ==
    IF now - m.timestamp >= AcknowledgeWithinHours /\ hasFile(m.fileId)
    THEN <<Alert("movement_unacknowledged", "warning", m.fileId, m.toCustodian,
                 NoTime)>>
    ELSE <<>>

RECURSIVE movementsCalls(_, _)
movementsCalls(ms, now) ==
    IF ms = <<>> THEN <<>>
    ELSE unacknowledgedCalls(Head(ms), now) \o movementsCalls(Tail(ms), now)

checkUnacknowledgedMovements(now) ==
    movementsCalls(getUnacknowledgedMovements, now)

missingLinkCalls(f) ==
    IF f.status = "Active" /\ f.linkedDigitalFiles = 0
    THEN <<Alert("missing_digital_link", "info", f.fileId, firstAdvocate(f),
                 NoTime)>>
    ELSE <<>>

RECURSIVE filesCalls(_)
filesCalls(fs) ==
    IF fs = <<>> THEN <<>>
    ELSE missingLinkCalls(Head(fs)) \o filesCalls(Tail(fs))

checkMissingDigitalLinks == filesCalls(files)

\* the calls of createAlertIfNew the n-th pass of runAlertCheck makes
passCalls(n, now) ==
    CASE n = 1 -> checkDeadlineAlerts(now)
      [] n = 2 -> checkOverdueFiles(now)
      [] n = 3 -> checkUnacknowledgedMovements(now)
      [] n = 4 -> checkMissingDigitalLinks

LastPass == 4

\* the alerts a scan that nothing interrupts leaves
runAlertCheckOn(al) ==
    createAll(al, passCalls(1, clock) \o passCalls(2, clock)
                  \o passCalls(3, clock) \o passCalls(4, clock))

\* runAlertCheck with nothing else running between its awaits
runAlertCheck ==
    /\ Len(runAlertCheckOn(alerts)) <= MaxAlerts
    /\ alerts' = runAlertCheckOn(alerts)
    /\ Returned("runAlertCheck", TRUE, "")
    /\ UNCHANGED <<ledgerSide, clock, deadlines, scan, backend>>

\* runAlertCheck from one await to the next.  A pass takes its list and the
\* time when it starts, and runs on to the end of its first call of
\* createAlertIfNew, whose check and createAlert are one synchronous stretch;
\* each later call, and the return of a pass, is a stretch of its own.
Scanners == {1, 2}

Idle == [pc |-> 0, calls |-> <<>>]

enterPass(p, n) ==
    IF passCalls(n, clock) = <<>>
    THEN /\ scan' = [scan EXCEPT ![p] = [pc |-> n, calls |-> <<>>]]
         /\ UNCHANGED alerts
    ELSE /\ Len(alerts) < MaxAlerts
         /\ alerts' = createAlertIfNew(alerts, Head(passCalls(n, clock)))
         /\ scan' = [scan EXCEPT ![p] = [pc |-> n,
                                         calls |-> Tail(passCalls(n, clock))]]

runAlertCheck_start(p) ==
    /\ scan[p].pc = 0
    /\ enterPass(p, 1)
    /\ UNCHANGED <<ledgerSide, clock, result, deadlines, backend>>

runAlertCheck_resume(p) ==
    /\ scan[p].pc # 0
    /\ IF scan[p].calls # <<>>
       THEN /\ Len(alerts) < MaxAlerts
            /\ alerts' = createAlertIfNew(alerts, Head(scan[p].calls))
            /\ scan' = [scan EXCEPT ![p].calls = Tail(@)]
       ELSE IF scan[p].pc = LastPass
       THEN scan' = [scan EXCEPT ![p] = Idle] /\ UNCHANGED alerts
       ELSE enterPass(p, scan[p].pc + 1)
    /\ UNCHANGED <<ledgerSide, clock, result, deadlines, backend>>

----------------------------------------------------------------------------
(* A second browser session, the clerk's, with a local store of its own:     *)
(* MovementTracker.transferFile as it runs there.  Its failures return a      *)
(* result to that session and change nothing.                                 *)

PeerUser == "U1"

\* APIClient.request in the second session
peer_send(req) == net' = IF online /\ serverUp THEN net \cup {req} ELSE net

peer_logMovement(d) ==
    /\ peer' = [files     |-> updateFile(peer.files, d.fileId, d.toCustodian),
                movements |-> Append(peer.movements, newMovement(d))]
    /\ peer_send([kind |-> "logMovement", body |-> newMovement(d),
                  session |-> 2])

peer_transferFile(fileId, toCustodianId, purpose) ==
    /\ Len(peer.movements) < MaxMovements
    /\ "logMovements" \in PERMISSIONS(Role(PeerUser))
    /\ fileIndex(peer.files, fileId) # 0
    /\ getUser(toCustodianId) # Null
    /\ ~(purpose # "" /\ purpose \notin MOVEMENT_PURPOSES)
    /\ peer_logMovement(
          [fileId        |-> fileId,
           fromCustodian |-> peer.files[fileIndex(peer.files, fileId)].currentCustodian,
           toCustodian   |-> toCustodianId,
           purpose       |-> purpose])
    /\ UNCHANGED <<files, movements, deadlines, alerts, currentUser, clock,
                   result, scan, online, srvFiles, srvMovements, serverUp, sync,
                   channel, access>>

----------------------------------------------------------------------------
(* The server: src/server/server.js on the tables of db.js *)

\* what the server leaves alone: the local stores of the sessions
local == <<files, movements, deadlines, alerts, currentUser, clock, result, scan,
           peer>>

\* the tables and the requests, which the sockets leave alone
tables == <<online, net, srvFiles, srvMovements, serverUp, sync>>

\* the connections a browser may open, each one once, and the users whose
\* sessions open them
SocketIds == {"S1", "S2"}
SocketUsers == {"U1", "U2"}

NoSocket == [state |-> "none", userId |-> Null]

\* wss.on('connection'): `let userId = null`
ws_connection(s) ==
    /\ serverUp
    /\ sockets[s].state = "none"
    /\ sockets' = [sockets EXCEPT ![s] = [state |-> "open", userId |-> Null]]
    /\ UNCHANGED <<local, tables, clients, pushed, access>>

\* ws.on('message') with the auth message WSClient.connect sends once its
\* socket is open: clients.set(userId, ws)
ws_message(s, userId) ==
    /\ sockets[s].state = "open"
    /\ sockets[s].userId = Null
    /\ sockets' = [sockets EXCEPT ![s].userId = userId]
    /\ clients' = [clients EXCEPT ![userId] = s]
    /\ UNCHANGED <<local, tables, pushed, access>>

\* ws.on('close'): clients.delete(userId) if the socket was authenticated;
\* what was sent to the socket and not handled is lost with it
ws_close(s) ==
    /\ sockets[s].state = "open"
    /\ sockets' = [sockets EXCEPT ![s].state = "closed"]
    /\ clients' = IF sockets[s].userId # Null
                  THEN [clients EXCEPT ![sockets[s].userId] = Absent]
                  ELSE clients
    /\ pushed' = {msg \in pushed : msg.socket # s}
    /\ UNCHANGED <<local, tables, access>>

\* the server process gone: its sockets close and its map is lost
closeAll == [s \in SocketIds |->
                IF sockets[s].state = "open"
                THEN [sockets[s] EXCEPT !.state = "closed"] ELSE sockets[s]]

noClients == [u \in UserIds |-> Absent]

\* a message as ws.send puts it on a socket; the fields a type does not
\* carry are Null and NoTime
Message(s, type, fileId, movementId, toCustodian) ==
    [socket |-> s, type |-> type, fileId |-> fileId, movementId |-> movementId,
     toCustodian |-> toCustodian]

\* notifyUser(userId, data): to the socket the map holds for the user, if
\* it is open
notifyUser(userId, type, fileId, movementId, toCustodian) ==
    IF /\ userId \in DOMAIN clients
       /\ clients[userId] # Absent
       /\ sockets[clients[userId]].state = "open"
    THEN {Message(clients[userId], type, fileId, movementId, toCustodian)}
    ELSE {}

\* broadcast(data): to every open socket, authenticated or not
broadcast(type, fileId, movementId, toCustodian) ==
    {Message(s, type, fileId, movementId, toCustodian) :
        s \in {t \in SocketIds : sockets[t].state = "open"}}

srvHasMovement(movementId) == \E i \in DOMAIN srvMovements :
    srvMovements[i].movementId = movementId

\* movementId || `MOV-${Date.now()}`: the id of the request, or one of the
\* server's own series, which no id of a client (MV-...) is in
idOf(body) ==
    IF "movementId" \in DOMAIN body THEN body.movementId ELSE 1000 + clock

movementRow(body) ==
    [movementId     |-> idOf(body),
     fileId         |-> body.fileId,
     fromCustodian  |-> body.fromCustodian,
     toCustodian    |-> body.toCustodian,
     timestamp      |-> clock,
     purpose        |-> body.purpose,
     acknowledged   |-> FALSE,
     acknowledgedAt |-> NoTime,
     acknowledgedBy |-> Undefined]

\* UPDATE files SET currentCustodian = ? WHERE fileId = ?: no row, no change
updateCustodian(tbl, fileId, toCustodian) ==
    IF tbl[fileId] = Absent THEN tbl ELSE [tbl EXCEPT ![fileId] = toCustodian]

\* POST /api/movements announcing the transfer when the request arrives,
\* before the INSERT is known to have gone through
postMovementsEarly(req) ==
    /\ serverUp
    /\ req \in net
    /\ req.kind = "logMovement"
    /\ pushed' = pushed
          \cup notifyUser(req.body.toCustodian, "movement_received",
                          req.body.fileId, idOf(req.body), Null)
          \cup broadcast("movement_logged", req.body.fileId, NoTime,
                         req.body.toCustodian)
    /\ IF srvHasMovement(idOf(req.body))
       THEN /\ serverUp' = FALSE
            /\ net' = {}
            /\ sockets' = closeAll
            /\ clients' = noClients
            /\ UNCHANGED <<srvFiles, srvMovements>>
       ELSE /\ srvMovements' = Append(srvMovements, movementRow(req.body))
            /\ srvFiles' = updateCustodian(srvFiles, req.body.fileId,
                                           req.body.toCustodian)
            /\ net' = net \ {req}
            /\ UNCHANGED <<serverUp, sockets, clients>>
    /\ UNCHANGED <<local, online, sync, access>>

\* POST /api/movements: BEGIN, INSERT, UPDATE, COMMIT, none of the first three
\* with a callback.  An INSERT that violates the primary key raises an 'error'
\* event nobody listens to: the process exits with the transaction open, which
\* rolls it back, and the requests in flight get no answer.
postMovements(req) ==
    /\ serverUp
    /\ req \in net
    /\ req.kind = "logMovement"
    /\ IF srvHasMovement(idOf(req.body))
       THEN /\ serverUp' = FALSE
            /\ net' = {}
            /\ sockets' = closeAll
            /\ clients' = noClients
            /\ UNCHANGED <<srvFiles, srvMovements, pushed>>
       ELSE /\ srvMovements' = Append(srvMovements, movementRow(req.body))
            /\ srvFiles' = updateCustodian(srvFiles, req.body.fileId,
                                           req.body.toCustodian)
            /\ net' = net \ {req}
            /\ pushed' = pushed
                  \cup notifyUser(req.body.toCustodian, "movement_received",
                                  req.body.fileId, idOf(req.body), Null)
                  \cup broadcast("movement_logged", req.body.fileId, NoTime,
                                 req.body.toCustodian)
            /\ UNCHANGED <<serverUp, sockets, clients>>
    /\ UNCHANGED <<local, online, sync, access>>

\* POST /api/files: the row is inserted and 201 answered, or the fileId is
\* taken and 500 answered, which createFile catches
postFiles(req) ==
    /\ serverUp
    /\ req \in net
    /\ req.kind = "registerFile"
    /\ IF srvFiles[req.body.fileId] # Absent
       THEN /\ net' = net \ {req}
            /\ UNCHANGED <<srvFiles, pushed>>
       ELSE /\ srvFiles' = [srvFiles EXCEPT ![req.body.fileId] =
                                req.body.currentCustodian]
            /\ net' = (net \ {req})
                          \cup {[kind |-> "fileRegistered", body |-> req.body]}
            /\ pushed' = pushed
                  \cup broadcast("file_created", req.body.fileId, NoTime, Null)
    /\ UNCHANGED <<local, online, srvMovements, serverUp, sync, sockets, clients,
                   access>>

\* POST /api/movements/:id/acknowledge
postAcknowledge(req) ==
    /\ serverUp
    /\ req \in net
    /\ req.kind = "acknowledgeMovement"
    /\ srvMovements' = [i \in DOMAIN srvMovements |->
           IF srvMovements[i].movementId = req.id
           THEN [srvMovements[i] EXCEPT !.acknowledged = TRUE,
                                        !.acknowledgedAt = clock]
           ELSE srvMovements[i]]
    /\ net' = net \ {req}
    /\ pushed' = pushed \cup broadcast("movement_acknowledged", Null, req.id, Null)
    /\ UNCHANGED <<local, online, srvFiles, serverUp, sync, sockets, clients,
                   access>>

\* DELETE /api/files/:fileId, sent by a firm owner
deleteFile(fileId) ==
    /\ serverUp
    /\ srvFiles[fileId] # Absent
    /\ srvMovements' = SelectIdx(srvMovements, 1,
           {i \in DOMAIN srvMovements : srvMovements[i].fileId # fileId})
    /\ srvFiles' = [srvFiles EXCEPT ![fileId] = Absent]
    /\ UNCHANGED <<local, online, net, serverUp, sync, channel, access>>

----------------------------------------------------------------------------
(* CaseTrackDB.syncWithBackend: five GETs sent together, answered one by one, *)
(* and the local store replaced by the answers once all are there.            *)

\* an answer not yet received
Pending == <<>>

RECURSIVE SortDesc(_)
\* ORDER BY timestamp DESC; rows of one timestamp stay in insertion order
SortDesc(rows) ==
    IF rows = <<>> THEN <<>>
    ELSE LET newest == MaxOf({rows[i].timestamp : i \in DOMAIN rows})
             first  == MinOf({i \in DOMAIN rows : rows[i].timestamp = newest})
         IN  <<rows[first]>> \o SortDesc(SelectIdx(rows, 1, DOMAIN rows \ {first}))

\* GET /api/files: the rows of the files table
fileRows == [f \in FileIds |-> srvFiles[f]]

\* the file objects the client stores for those rows; the table has no
\* column for linkedDigitalFiles
filesFrom(rows) ==
    LET rec(i) == [RegisteredFiles[i] EXCEPT
                      !.currentCustodian = rows[RegisteredFiles[i].fileId],
                      !.assignedAdvocates = AsText(@),
                      !.linkedDigitalFiles = 0]
    IN  SelectIdx([i \in DOMAIN RegisteredFiles |-> rec(i)], 1,
                  {i \in DOMAIN RegisteredFiles :
                      rows[RegisteredFiles[i].fileId] # Absent})

syncWithBackend_start ==
    /\ online
    /\ sync.pc = "idle"
    /\ sync' = [pc |-> "fetching", files |-> Pending, movements |-> Pending]
    /\ UNCHANGED <<local, online, net, srvFiles, srvMovements, serverUp,
                   channel, access>>

getFiles ==
    /\ serverUp
    /\ sync.pc = "fetching"
    /\ sync.files = Pending
    /\ sync' = [sync EXCEPT !.files = <<fileRows>>]
    /\ UNCHANGED <<local, online, net, srvFiles, srvMovements, serverUp,
                   channel, access>>

getMovements ==
    /\ serverUp
    /\ sync.pc = "fetching"
    /\ sync.movements = Pending
    /\ sync' = [sync EXCEPT !.movements = <<SortDesc(srvMovements)>>]
    /\ UNCHANGED <<local, online, net, srvFiles, srvMovements, serverUp,
                   channel, access>>

\* all answers in: saveData for each of them (the alerts table has no
\* targetUserId column, so POST /api/alerts never inserts and GET /api/alerts
\* answers []; no deadline is created in this specification)
syncWithBackend_done ==
    /\ sync.pc = "fetching"
    /\ sync.files # Pending
    /\ sync.movements # Pending
    /\ files' = filesFrom(sync.files[1])
    /\ movements' = sync.movements[1]
    /\ deadlines' = <<>>
    /\ alerts' = <<>>
    /\ sync' = [pc |-> "idle"]
    /\ UNCHANGED <<currentUser, clock, result, scan, online, net, srvFiles,
                   srvMovements, serverUp, peer, channel, access>>

\* a request of Promise.all rejected: caught, nothing saved
syncWithBackend_failed ==
    /\ sync.pc = "fetching"
    /\ ~serverUp
    /\ sync' = [pc |-> "idle"]
    /\ UNCHANGED <<local, online, net, srvFiles, srvMovements, serverUp,
                   channel, access>>

\* socket.onmessage -> WSClient.handleMessage -> refreshUI: every type the
\* server sends asks for a synchronisation, which starts unless one is under
\* way or the backend is unreachable
WSClient_handleMessage(msg) ==
    /\ msg \in pushed
    /\ sockets[msg.socket].state = "open"
    /\ pushed' = pushed \ {msg}
    /\ sync' = IF online /\ sync.pc = "idle"
               THEN [pc |-> "fetching", files |-> Pending, movements |-> Pending]
               ELSE sync
    /\ UNCHANGED <<local, online, net, srvFiles, srvMovements, serverUp,
                   sockets, clients, access>>

----------------------------------------------------------------------------
(* Specifications *)

MovementIdInputs == Instants

InitRest ==
    /\ deadlines = <<>>
    /\ alerts = <<>>
    /\ clock = 0
    /\ result = [op |-> "none", success |-> TRUE, error |-> ""]
    /\ scan = [p \in Scanners |-> Idle]
    /\ peer = [files |-> RegisteredFiles, movements |-> <<>>]

InitStore ==
    /\ files = RegisteredFiles
    /\ movements = <<>>
    /\ InitRest

\* no connection yet and no token signed
InitChannel ==
    /\ sockets = [s \in SocketIds |-> NoSocket]
    /\ clients = noClients
    /\ pushed = {}

NoToken == [userId |-> Null, pending2FA |-> FALSE, exp |-> 0]

InitAccess ==
    /\ tokens = {}
    /\ admitted = [path |-> "", status |-> "", user |-> NoToken]

InitServer ==
    /\ InitChannel
    /\ InitAccess
    /\ net = {}
    /\ srvFiles = [f \in FileIds |-> getFile(f).currentCustodian]
    /\ srvMovements = <<>>
    /\ serverUp = TRUE
    /\ sync = [pc |-> "idle"]

Init == InitStore /\ InitServer /\ currentUser = Null /\ online = FALSE

Ledger ==
    \/ \E u \in UserIds : login(u)
    \/ logout
    \/ \E f \in FileIds \cup {UnknownFile}, u \in UserIds \cup {UnknownUser},
          p \in PurposeInputs : transferFile(f, u, p)
    \/ \E f \in FileIds, u \in UserIds, p \in PurposeInputs :
          handleMovementSubmit(f, u, p)
    \/ \E id \in MovementIdInputs : MovementTracker_acknowledgeReceipt(id)
    \/ \E id \in MovementIdInputs : CaseTrackKE_acknowledgeReceipt(id)
    \/ \E f \in FileIds \cup {UnknownFile} : processQRScan_acknowledge(f)

Next ==
    \/ Ledger
    \/ \E t \in Instants : t <= LedgerHorizon /\ Tick(t)

Spec == Init /\ [][Next]_vars

\* the backend reachable, and one session, the partner's, working on file F1
SessionUsers == {"U3"}
SessionFiles == {"F1"}

InitBackend ==
    /\ InitStore
    /\ InitServer
    /\ currentUser \in SessionUsers
    /\ online = TRUE

\* the next request waits until fewer than MaxInFlight are unanswered
Session ==
    /\ Cardinality(net) < MaxInFlight
    /\ \E f \in SessionFiles, u \in UserIds, p \in PurposeInputs :
          transferFile(f, u, p)

Server ==
    \/ \E req \in net : postMovements(req)
    \/ \E f \in SessionFiles : deleteFile(f)

Sync ==
    \/ syncWithBackend_start
    \/ getFiles
    \/ getMovements
    \/ syncWithBackend_done
    \/ syncWithBackend_failed

NextBackend ==
    \/ Session
    \/ \E t \in Instants : t <= LedgerHorizon /\ Tick(t)
    \/ Server
    \/ Sync

SpecBackend == InitBackend /\ [][NextBackend]_vars

\* two sessions working on file F1 at once, each with at most MaxInFlight
\* requests unanswered
inFlight(session) ==
    {req \in net : ("session" \in DOMAIN req) = (session = 2)}

NextClients ==
    \/ /\ Cardinality(inFlight(1)) < MaxInFlight
       /\ \E f \in SessionFiles, u \in UserIds, p \in PurposeInputs :
             transferFile(f, u, p)
    \/ /\ Cardinality(inFlight(2)) < MaxInFlight
       /\ \E f \in SessionFiles, u \in UserIds, p \in PurposeInputs :
             peer_transferFile(f, u, p)
    \/ \E t \in Instants : t <= LedgerHorizon /\ Tick(t)
    \/ \E req \in net : postMovements(req)
    \/ Sync

SpecClients == InitBackend /\ [][NextClients]_vars

\* transferFile called with every kind of argument: a purpose of the list, no
\* purpose, and a purpose the list does not have
TransferPurposes == {"Filing", "", "Shredding"}

NextTransfers ==
    \/ \E u \in UserIds : login(u)
    \/ logout
    \/ \E f \in FileIds \cup {UnknownFile}, u \in UserIds \cup {UnknownUser},
          p \in TransferPurposes : transferFile(f, u, p)
    \/ \E t \in Instants : t <= LedgerHorizon /\ Tick(t)

SpecTransfers == Init /\ [][NextTransfers]_vars

\* deadlines added and completed by whoever is logged in
DeadlineIdInputs == Instants

NextDeadlines ==
    \/ \E u \in UserIds : login(u)
    \/ logout
    \/ \E f \in FileIds, due \in DueDates : createDeadline(f, due)
    \/ \E id \in DeadlineIdInputs : completeDeadline(id)
    \/ \E t \in Instants : Tick(t)

SpecDeadlines == Init /\ [][NextDeadlines]_vars

\* the alert engine on the local store, the advocate logged in; the log is
\* empty or holds the transfer that brought F1 to the clerk 13 days before
Backdated(fileId, toCustodian, hoursAgo) ==
    [movementId     |-> 0 - hoursAgo,
     fileId         |-> fileId,
     fromCustodian  |-> Null,
     toCustodian    |-> toCustodian,
     timestamp      |-> 0 - hoursAgo,
     purpose        |-> "Filing",
     acknowledged   |-> FALSE,
     acknowledgedAt |-> NoTime,
     acknowledgedBy |-> Null]

BackdatedLogs == {<<>>, <<Backdated("F1", "U1", 312)>>}

\* the file the advocate asks for, held by the clerk
RequestedFiles == {"F1"}

InitAlerts ==
    /\ files = RegisteredFiles
    /\ movements \in BackdatedLogs
    /\ InitRest
    /\ InitServer
    /\ currentUser = "U2"
    /\ online = FALSE

NextAlerts ==
    \/ \E f \in FileIds, due \in DueDates : createDeadline(f, due)
    \/ \E f \in RequestedFiles : requestFile(f)
    \/ \E id \in 1..MaxAlerts : dismissAlert(id)
    \/ runAlertCheck
    \/ \E t \in Instants : Tick(t)

SpecAlerts == InitAlerts /\ [][NextAlerts]_vars

NextScans ==
    \/ \E f \in FileIds, due \in DueDates : createDeadline(f, due)
    \/ \E p \in Scanners : runAlertCheck_start(p)
    \/ \E p \in Scanners : runAlertCheck_resume(p)
    \/ \E t \in Instants : Tick(t)

SpecScans == InitAlerts /\ [][NextScans]_vars

\* the alert engine with the backend reachable: requests, dismissals, scans
\* and synchronisations
InitDismissals ==
    /\ files = RegisteredFiles
    /\ movements \in BackdatedLogs
    /\ InitRest
    /\ InitServer
    /\ currentUser = "U2"
    /\ online = TRUE

NextDismissals ==
    \/ \E f \in RequestedFiles : requestFile(f)
    \/ \E id \in 1..MaxAlerts : dismissAlert(id)
    \/ runAlertCheck
    \/ \E t \in Instants : Tick(t)
    \/ syncWithBackend_start
    \/ getFiles
    \/ getMovements
    \/ syncWithBackend_done

SpecDismissals == InitDismissals /\ [][NextDismissals]_vars

\* the alerts of file F1 as each user in turn logs in and reads the inbox
NextInbox ==
    \/ \E u \in UserIds : login(u)
    \/ logout
    \/ \E f \in RequestedFiles, due \in DueDates : createDeadline(f, due)
    \/ \E f \in RequestedFiles : requestFile(f)
    \/ \E id \in 1..MaxAlerts : dismissAlert(id)
    \/ runAlertCheck
    \/ \E t \in Instants : Tick(t)

SpecInbox == InitAlerts /\ [][NextInbox]_vars

\* the bottleneck report asked for with several thresholds, over logs whose
\* last transfers are 4, 13 and, a day later, 14 days old
ReportLogs ==
    {<<Backdated("F1", "U1", 312)>>,
     <<Backdated("F1", "U1", 312), Backdated("F2", "U2", 96)>>}

Thresholds == {3, 7, 14}

InitReports ==
    /\ files = RegisteredFiles
    /\ movements \in ReportLogs
    /\ InitRest
    /\ InitServer
    /\ currentUser = Null
    /\ online = FALSE

NextReports ==
    \/ \E u \in UserIds : login(u)
    \/ logout
    \/ \E f \in FileIds, u \in UserIds, p \in PurposeInputs : transferFile(f, u, p)
    \/ \E thresholdDays \in Thresholds : Reports_getBottleneckReport(thresholdDays)
    \/ \E t \in Instants : Tick(t)

SpecReports == InitReports /\ [][NextReports]_vars

\* a firm that starts with no file: a file is registered, transferred and
\* acknowledged, one operation after the other as each succeeds, while the
\* backend handles the requests
done(op)  == result.op = op /\ result.success
tried(op) == result.op = op /\ ~result.success

InitScenario ==
    /\ files = <<>>
    /\ movements = <<>>
    /\ InitRest
    /\ InitChannel
    /\ InitAccess
    /\ net = {}
    /\ srvFiles = [f \in FileIds |-> Absent]
    /\ srvMovements = <<>>
    /\ serverUp = TRUE
    /\ sync = [pc |-> "idle"]
    /\ currentUser = Null
    /\ online = TRUE

NextScenario ==
    \/ \E u \in UserIds : login(u)
    \/ /\ result.op = "none" \/ tried("registerFile")
       /\ \E custodian \in {"U1", ""} : registerFile(custodian)
    \/ /\ done("registerFile") \/ tried("transferFile")
       /\ transferFile("F1", "U2", "Filing")
    \/ /\ done("transferFile") \/ tried("acknowledgeReceipt")
       /\ \E id \in MovementIdInputs : MovementTracker_acknowledgeReceipt(id)
    \/ \E t \in Instants : t <= LedgerHorizon /\ Tick(t)
    \/ \E req \in net : postFiles(req)
    \/ \E reply \in net : createFile_registered(reply)
    \/ \E req \in net : postMovements(req)
    \/ \E req \in net : postAcknowledge(req)

SpecScenario == InitScenario /\ [][NextScenario]_vars

----------------------------------------------------------------------------
(* The custody ledger *)

RegisteredCustodian(fileId) ==
    RegisteredFiles[fileIndex(RegisteredFiles, fileId)].currentCustodian

\* C1: after any sequence of transfers, each file's currentCustodian is the
\* toCustodian of the movement appended last for that file, and a file no
\* movement was logged for is still with the custodian it was registered with.
C1_CustodianIsLastRecipient ==
    \A i \in DOMAIN files :
        LET own == movementsOf(movements, files[i].fileId)
        IN  IF own = {}
            THEN files[i].currentCustodian = RegisteredCustodian(files[i].fileId)
            ELSE files[i].currentCustodian = movements[MaxOf(own)].toCustodian

\* two transfers of the second file, to different users, the last one through
\* transferFile
C1_Witness ==
    /\ Len(movements) = 2
    /\ movements[1].fileId = "F2"
    /\ movements[2].fileId = "F2"
    /\ movements[1].toCustodian # movements[2].toCustodian
    /\ result.op = "transferFile"
    /\ result.success

\* the server's tables after a commit: the movement rows of a file
rowsOf(fileId) == {i \in DOMAIN srvMovements : srvMovements[i].fileId = fileId}

\* C2: the server never holds half a transfer: a file that has movement rows
\* exists and its currentCustodian is the toCustodian of its last row.
C2_NoPartialWrite ==
    \A f \in FileIds :
        rowsOf(f) # {} =>
            /\ srvFiles[f] # Absent
            /\ srvFiles[f] = srvMovements[MaxOf(rowsOf(f))].toCustodian

\* the local copy, as a reader sees it: the movements of a file that carry
\* its latest timestamp
newestOf(fileId) ==
    LET own == movementsOf(movements, fileId)
        top == MaxOf({movements[i].timestamp : i \in own})
    IN  {i \in own : movements[i].timestamp = top}

\* C3: as long as no file was deleted on the server, a reader of the local
\* store sees whole transfers only: a file with visible movements is with the
\* recipient of a newest one, a file with none is with its first custodian,
\* and every visible movement is of a visible file.
C3_ReaderSeesWholeTransfers ==
    (\A f \in FileIds : srvFiles[f] # Absent) =>
        /\ \A i \in DOMAIN files :
              IF movementsOf(movements, files[i].fileId) = {}
              THEN files[i].currentCustodian = RegisteredCustodian(files[i].fileId)
              ELSE \E j \in newestOf(files[i].fileId) :
                      files[i].currentCustodian = movements[j].toCustodian
        /\ \A j \in DOMAIN movements : hasFile(movements[j].fileId)

----------------------------------------------------------------------------
(* Acknowledgment *)

\* the caller is neither the recipient of the movement nor a holder of
\* viewAllFiles (nobody logged in included)
notEntitled(movement) ==
    /\ movement.toCustodian # currentUser
    /\ "viewAllFiles" \notin PERMISSIONS(Role(currentUser))

C5_AcknowledgedByEntitled ==
    \A i \in DOMAIN movements :
        movements[i].acknowledged =>
            \/ movements[i].acknowledgedBy = movements[i].toCustodian
            \/ "viewAllFiles" \in PERMISSIONS(Role(movements[i].acknowledgedBy))

----------------------------------------------------------------------------
(* Alerts *)

activeAlerts(al) == {i \in DOMAIN al : ~al[i].dismissed}

activeWith(al, type, fileId, targetUserId) ==
    {i \in activeAlerts(al) : /\ al[i].type = type
                              /\ al[i].fileId = fileId
                              /\ al[i].targetUserId = targetUserId}

\* C6: no two active alerts have the same type, fileId and targetUserId,
\* whichever operation created them.
C6_OneActiveAlertPerKey ==
    \A i, j \in activeAlerts(alerts) :
        (/\ alerts[i].type = alerts[j].type
         /\ alerts[i].fileId = alerts[j].fileId
         /\ alerts[i].targetUserId = alerts[j].targetUserId) => i = j

\* C7: a scan run to completion right after a scan run to completion, with
\* nothing changed in between, creates no alert.
C7_SecondRunAddsNothing ==
    runAlertCheckOn(runAlertCheckOn(alerts)) = runAlertCheckOn(alerts)

\* a scan has just left alerts of the deadline pass and of a later pass
C7_Witness ==
    /\ result.op = "runAlertCheck"
    /\ \E i \in activeAlerts(alerts) : alerts[i].type = "deadline_upcoming"
    /\ \E i \in activeAlerts(alerts) : alerts[i].type = "missing_digital_link"
    /\ Len(alerts) >= 3

keyOf(a) == <<a.type, a.fileId, a.targetUserId>>

C9_OverdueDeadlineAlerted ==
    \A k \in DOMAIN deadlines :
        LET d      == deadlines[k]
            target == firstAdvocate(getFile(d.fileId))
            after  == runAlertCheckOn(alerts)
        IN  (/\ d.status = "Pending"
             /\ d.dueDate < clock
             /\ hasFile(d.fileId)
             /\ activeWith(alerts, "deadline_overdue", d.fileId, target) = {}
             /\ \A u \in UserIds :
                   Role(u) = "Partner" =>
                       activeWith(alerts, "escalation", d.fileId, u) = {})
            => /\ Cardinality(activeWith(after, "deadline_overdue", d.fileId,
                                         target)) = 1
               /\ \A i \in activeWith(after, "deadline_overdue", d.fileId, target) :
                     after[i].severity = "critical"
               /\ \A u \in UserIds :
                     Role(u) = "Partner" =>
                         /\ Cardinality(activeWith(after, "escalation",
                                                   d.fileId, u)) = 1
                         /\ \A i \in activeWith(after, "escalation", d.fileId, u) :
                               after[i].severity = "critical"

\* the least number of whole days that cover `hours`
CeilDays(hours) ==
    CHOOSE n \in (0 - 2)..8 :
        (n - 1) * HoursPerDay < hours /\ hours <= n * HoursPerDay

\* the alerts when the deadline pass reaches the k-th Pending deadline, and
\* when it is done with it
reaching(k) ==
    createAll(alerts, deadlinesCalls(SubSeq(pendingDeadlines, 1, k - 1), clock))

leaving(k) == createAll(reaching(k), deadlineCalls(pendingDeadlines[k], clock))

upcomingCreated(k) ==
    {j \in (Len(reaching(k)) + 1)..Len(leaving(k)) :
        leaving(k)[j].type = "deadline_upcoming"}

\* what C10 says of the k-th Pending deadline
thresholdRule(k) ==
    LET days == CeilDays(pendingDeadlines[k].dueDate - clock)
    IN  /\ upcomingCreated(k) # {} <=> days \in {7, 3, 1}
        /\ \A j \in upcomingCreated(k) :
              leaving(k)[j].severity =
                  (CASE days = 7 -> "info"
                     [] days = 3 -> "warning"
                     [] days = 1 -> "critical"
                     [] OTHER    -> "none")

upcomingKey(k) ==
    [type         |-> "deadline_upcoming",
     fileId       |-> pendingDeadlines[k].fileId,
     targetUserId |-> firstAdvocate(getFile(pendingDeadlines[k].fileId))]

\* C10, as stated: for a Pending deadline of an existing file with no active
\* deadline_upcoming alert for its key before the scan, the scan creates a
\* deadline_upcoming alert exactly when ceil((dueDate - now) / 24h) is 7, 3
\* or 1, of severity info, warning or critical.
C10_UpcomingAtThresholds ==
    \A k \in DOMAIN pendingDeadlines :
        (/\ hasFile(pendingDeadlines[k].fileId)
         /\ ~hasActive(alerts, upcomingKey(k)))
        => thresholdRule(k)

\* C10, amended: the same with no active deadline_upcoming alert for its key
\* at the moment the deadline pass reaches the deadline - none before the
\* scan and none created earlier in the scan for another deadline of the file.
C10_UpcomingAtThresholdsWhenReached ==
    \A k \in DOMAIN pendingDeadlines :
        (/\ hasFile(pendingDeadlines[k].fileId)
         /\ ~hasActive(reaching(k), upcomingKey(k)))
        => thresholdRule(k)

\* a scan has just left a critical and a warning deadline_upcoming alert
C10_Witness ==
    /\ result.op = "runAlertCheck"
    /\ \E i \in activeAlerts(alerts) :
          alerts[i].type = "deadline_upcoming" /\ alerts[i].severity = "critical"
    /\ \E i \in activeAlerts(alerts) :
          alerts[i].type = "deadline_upcoming" /\ alerts[i].severity = "warning"

----------------------------------------------------------------------------
(* Transfers *)

\* C11: every movement a transfer appends records as fromCustodian the
\* custodian the file had just before, and is not acknowledged, whichever
\* entry point logged it (transferFile or the movement form).
C11_TransferRecordsCustodian ==
    [][Len(movements') = Len(movements) + 1 =>
          LET m == movements'[Len(movements')]
          IN  /\ hasFile(m.fileId) =>
                    m.fromCustodian = getFile(m.fileId).currentCustodian
              /\ ~m.acknowledged]_vars

\* the rows of a file in the order they were committed
committed(fileId) == SelectIdx(srvMovements, 1, rowsOf(fileId))

\* C12: the committed movements of a file form one chain in commit order,
\* each taking the file from the recipient of the one before, and the file is
\* with the recipient of the last.
C12_CommittedTransfersChain ==
    \A f \in FileIds :
        /\ \A k \in 2..Len(committed(f)) :
              committed(f)[k].fromCustodian = committed(f)[k - 1].toCustodian
        /\ committed(f) # <<>> =>
              srvFiles[f] = committed(f)[Len(committed(f))].toCustodian

\* the movement at index i is the only one of the log with its movementId
onlyOfItsId(ms, i) ==
    \A k \in DOMAIN ms : ms[k].movementId = ms[i].movementId => k = i

\* C13: a movement of the local log keeps its fileId, fromCustodian,
\* toCustodian, purpose and timestamp through every later step, a
\* synchronisation with the backend included.
C13_MovementFieldsFrozen ==
    [][\A i \in DOMAIN movements, j \in DOMAIN movements' :
          (/\ movements[i].movementId = movements'[j].movementId
           /\ onlyOfItsId(movements, i)
           /\ onlyOfItsId(movements', j))
          => /\ movements'[j].fileId = movements[i].fileId
             /\ movements'[j].fromCustodian = movements[i].fromCustodian
             /\ movements'[j].toCustodian = movements[i].toCustodian
             /\ movements'[j].purpose = movements[i].purpose
             /\ movements'[j].timestamp = movements[i].timestamp]_vars

\* C14: MovementTracker.acknowledgeReceipt called for a movement that is
\* already acknowledged returns a failure and leaves the log, acknowledgedAt
\* and acknowledgedBy included, as the first acknowledgment left it.
C14_NoSecondAcknowledgment ==
    [][\A id \in MovementIdInputs :
          (/\ hasMovement(id)
           /\ getMovement(id).acknowledged
           /\ MovementTracker_acknowledgeReceipt(id))
          => (~result'.success /\ movements' = movements)]_vars

\* C15: transferFile called with a fileId that does not exist, a recipient
\* that does not exist or a purpose that is not of MOVEMENT_PURPOSES (none at
\* all included) returns a failure, appends no movement and moves no file.
C15_TransferRejectsBadInput ==
    [][\A f \in FileIds \cup {UnknownFile}, u \in UserIds \cup {UnknownUser},
         p \in TransferPurposes :
          (/\ \/ ~hasFile(f)
              \/ getUser(u) = Null
              \/ p \notin MOVEMENT_PURPOSES
           /\ transferFile(f, u, p))
          => /\ ~result'.success
             /\ movements' = movements
             /\ files' = files]_vars

----------------------------------------------------------------------------
(* Deadlines *)

----------------------------------------------------------------------------
(* Dismissal and the inbox *)

\* every call of createAlertIfNew a scan started now would make
scanCalls ==
    passCalls(1, clock) \o passCalls(2, clock) \o passCalls(3, clock)
        \o passCalls(4, clock)

\* a dismissed alert is in no list getActiveAlerts or getMyAlerts returns
dismissedStayHidden ==
    \A i \in DOMAIN alerts :
        alerts[i].dismissed =>
            /\ \A u \in UserIds \cup {Null} :
                  alerts[i] \notin Range(getActiveAlerts(alerts, u))
            /\ alerts[i] \notin Range(getMyAlerts)

\* a condition whose only alerts are dismissed is alerted again by the next
\* scan, with one new active alert of the same type, fileId and targetUserId
dismissedDoNotCount ==
    \A k \in DOMAIN scanCalls :
        LET call == scanCalls[k]
        IN  (/\ activeWith(alerts, call.type, call.fileId, call.targetUserId) = {}
             /\ \E i \in DOMAIN alerts : alerts[i].dismissed
                                         /\ keyOf(alerts[i]) = keyOf(call))
            => /\ Cardinality(activeWith(runAlertCheckOn(alerts), call.type,
                                         call.fileId, call.targetUserId)) = 1
               /\ \A j \in activeWith(runAlertCheckOn(alerts), call.type,
                                      call.fileId, call.targetUserId) :
                     j > Len(alerts)

\* no step gives a dismissed alert its dismissed = false back: it stays as
\* it is, or leaves the list with a synchronisation
dismissedStay ==
    \A i \in DOMAIN alerts :
        (alerts[i].dismissed /\ i \in DOMAIN alerts') =>
            /\ alerts'[i].dismissed
            /\ alerts'[i].alertId = alerts[i].alertId

\* C17: dismissal is terminal: no operation, syncWithBackend included, makes
\* a dismissed alert active again; it is in no result of getActiveAlerts or
\* getMyAlerts; and it does not count in createAlertIfNew's search, so that
\* the next scan in which the condition holds creates a new active alert of
\* the same type, fileId and targetUserId.
C17_DismissalIsTerminal ==
    /\ [](dismissedStayHidden /\ dismissedDoNotCount)
    /\ [][dismissedStay]_vars

\* a scan has just alerted again what was dismissed before
C17_Witness ==
    /\ result.op = "runAlertCheck"
    /\ \E i, j \in DOMAIN alerts :
          /\ i < j
          /\ alerts[i].dismissed
          /\ ~alerts[j].dismissed
          /\ keyOf(alerts[i]) = keyOf(alerts[j])

\* the alerts not dismissed that are for the user or for nobody in particular
inboxOf(userId) ==
    {alerts[i] : i \in {j \in activeAlerts(alerts) :
                          alerts[j].targetUserId \in {userId, Null}}}

\* C18: getMyAlerts gives a user who does not hold viewAllFiles (a clerk, an
\* advocate) only alerts that are not dismissed and are for that user or for
\* nobody in particular, never an alert for another user; it gives a holder
\* of viewAllFiles (a partner) every alert that is not dismissed.
C18_InboxOfTheUser ==
    currentUser # Null =>
        IF "viewAllFiles" \in PERMISSIONS(Role(currentUser))
        THEN Range(getMyAlerts) = {alerts[i] : i \in activeAlerts(alerts)}
        ELSE /\ Range(getMyAlerts) \subseteq inboxOf(currentUser)
             /\ \A a \in Range(getMyAlerts) :
                   a.targetUserId \notin UserIds \ {currentUser}

\* the clerk is logged in while there are active alerts for the clerk, for
\* the advocate, for the partner and for nobody in particular, and a
\* dismissed one
C18_Witness ==
    /\ currentUser = "U1"
    /\ \A t \in UserIds \cup {Null} :
          \E i \in activeAlerts(alerts) : alerts[i].targetUserId = t
    /\ \E i \in DOMAIN alerts : alerts[i].dismissed
    /\ getMyAlerts # <<>>

----------------------------------------------------------------------------
(* The bottleneck report *)

\* the entries of the report last returned
reported ==
    IF result.op = "getBottleneckReport" THEN Range(result.bottlenecks) ELSE {}

\* C19, as stated: every entry of a bottleneck report, whatever the
\* threshold, has riskLevel high when its daysHeld is 14 or more and medium
\* otherwise.
C19_RiskIsHighOrMedium ==
    \A e \in reported :
        e.riskLevel = IF e.daysHeld >= 14 THEN "high" ELSE "medium"

\* C19, amended: high when daysHeld is 14 or more, medium from 7 to 13, and
\* low below 7, which a threshold below 7 lets into the report.
C19_RiskByDaysHeld ==
    \A e \in reported :
        /\ e.daysHeld >= 14 => e.riskLevel = "high"
        /\ (e.daysHeld >= 7 /\ e.daysHeld < 14) => e.riskLevel = "medium"
        /\ e.daysHeld < 7 => e.riskLevel = "low"
        /\ e.riskLevel \in {"high", "medium", "low"}

\* a report holds a file last moved 14 days ago at high risk next to one
\* moved 5 days ago
C19_Witness ==
    /\ \E e \in reported :
          /\ e.riskLevel = "high"
          /\ clock - lastMovement(e.file.fileId).timestamp = 14 * HoursPerDay
    /\ \E e \in reported : e.daysHeld = 5

----------------------------------------------------------------------------
(* The scenario *)

\* after the transfer: F1 is with U2, its history is one movement, not
\* acknowledged, and the backend holds no movement of F1 but that one
transferredOnce ==
    (done("transferFile") \/ result.op = "acknowledgeReceipt") =>
        /\ getFile("F1").currentCustodian = "U2"
        /\ Cardinality(movementsOf(movements, "F1")) = 1
        /\ canViewFile(getFile("F1")) => Len(getFileHistory("F1")) = 1
        /\ done("transferFile") =>
              \A i \in movementsOf(movements, "F1") : ~movements[i].acknowledged
        /\ \A i \in rowsOf("F1") :
              \E j \in movementsOf(movements, "F1") :
                  srvMovements[i].movementId = movements[j].movementId

\* U2 acknowledging the movement leaves it acknowledged, by U2
acknowledgedByRecipient ==
    \A id \in MovementIdInputs :
        (/\ currentUser = "U2"
         /\ done("transferFile")
         /\ hasMovement(id)
         /\ MovementTracker_acknowledgeReceipt(id))
        => /\ result'.success
           /\ movements'[movementIndex(movements, id)].acknowledged
           /\ movements'[movementIndex(movements, id)].acknowledgedBy = "U2"

\* C20: F1 registered with custodian U1 and transferred to U2 for Filing is
\* with U2 and has a history of exactly one movement, not acknowledged, the
\* registration adding none to the local log nor to the backend's movements;
\* when U2 acknowledges it, it is acknowledged, by U2.
C20_RegisterTransferAcknowledge ==
    /\ []transferredOnce
    /\ [][acknowledgedByRecipient]_vars

----------------------------------------------------------------------------
(* The history of a file *)

\* C21: getFileHistory gives, to who may view the file, all the movements of
\* the file from the oldest to the newest by timestamp, also after
\* syncWithBackend replaced the local log by the rows of GET /api/movements.
C21_HistoryOldestFirst ==
    \A i \in DOMAIN files :
        canViewFile(files[i]) =>
            LET history == getFileHistory(files[i].fileId)
            IN  /\ Len(history) = Cardinality(movementsOf(movements, files[i].fileId))
                /\ \A k \in 2..Len(history) :
                      history[k - 1].timestamp <= history[k].timestamp

----------------------------------------------------------------------------
(* A scan in which createAlert fails *)

RECURSIVE createUntil(_, _, _, _)
\* the calls of createAlertIfNew made one after the other where the
\* failing-th call of createAlert throws (a storage error): the alerts it
\* leaves, and the number of the call of createAlertIfNew that threw, 0 for
\* none; `made` counts the calls before `calls`
createUntil(al, calls, failing, made) ==
    IF calls = <<>> THEN [alerts |-> al, thrownAt |-> 0]
    ELSE IF hasActive(al, Head(calls))
    THEN createUntil(al, Tail(calls), failing, made + 1)
    ELSE IF failing = 1 THEN [alerts |-> al, thrownAt |-> made + 1]
    ELSE createUntil(createAlert(al, Head(calls)), Tail(calls), failing - 1,
                     made + 1)

\* runAlertCheck where a call of createAlert throws: no pass catches it,
\* each `await` rethrows, and the promise of runAlertCheck is rejected
runAlertCheck_storageError(failing) ==
    LET scanned == createUntil(alerts, scanCalls, failing, 0)
    IN  /\ scanned.thrownAt # 0
        /\ alerts' = scanned.alerts
        /\ Returned("runAlertCheck", FALSE, "StorageError")
        /\ UNCHANGED <<ledgerSide, clock, deadlines, scan, backend>>

NextFailures ==
    \/ \E f \in FileIds, due \in DueDates : createDeadline(f, due)
    \/ runAlertCheck
    \/ \E failing \in 1..MaxAlerts : runAlertCheck_storageError(failing)
    \/ \E t \in Instants : Tick(t)

SpecFailures == InitAlerts /\ [][NextFailures]_vars

\* the pass the k-th call of createAlertIfNew of a scan belongs to
passOf(k) ==
    MinOf({n \in 1..LastPass :
              k <= Len(passCalls(1, clock))
                   + (IF n >= 2 THEN Len(passCalls(2, clock)) ELSE 0)
                   + (IF n >= 3 THEN Len(passCalls(3, clock)) ELSE 0)
                   + (IF n >= 4 THEN Len(passCalls(4, clock)) ELSE 0)})

\* the calls of the passes after pass n
callsAfter(n) ==
    (IF n < 2 THEN passCalls(2, clock) ELSE <<>>)
    \o (IF n < 3 THEN passCalls(3, clock) ELSE <<>>)
    \o (IF n < 4 THEN passCalls(4, clock) ELSE <<>>)

\* C22: a scan in which createAlert fails in one pass still runs the passes
\* after it: every alert those passes call for is active when the scan ends.
C22_FailureStaysInItsPass ==
    [][\A failing \in 1..MaxAlerts :
          runAlertCheck_storageError(failing) =>
              LET thrownAt == createUntil(alerts, scanCalls, failing, 0).thrownAt
              IN  \A call \in Range(callsAfter(passOf(thrownAt))) :
                      hasActive(alerts', call)]_vars

----------------------------------------------------------------------------
(* FileManager: metadata, status and documents *)

FILE_STATUSES == {"Active", "Dormant", "Closed"}

\* CaseTrackDB.updateFile(fileId, updates) with any updates: the first file
\* with that id takes them (updatedAt is left out)
updateFileWith(fs, fileId, updates) ==
    LET i == fileIndex(fs, fileId)
    IN  IF i = 0 THEN fs
        ELSE [fs EXCEPT ![i] = [k \in DOMAIN fs[i] |->
                 IF k \in DOMAIN updates THEN updates[k] ELSE fs[i][k]]]

\* FileManager.updateFile: CaseTrackDB.updateFile is async, so what it
\* returns is a promise, never null, and `File not found` is never answered
FileManager_updateFile(fileId, updates) ==
    /\ IF ~requirePermission("updateFileStatus")
       THEN Fail("updateFile", permissionError)
       ELSE /\ files' = updateFileWith(files, fileId, updates)
            /\ Succeed("updateFile")
            /\ UNCHANGED <<movements, net>>
    /\ UNCHANGED <<currentUser, clock, alertSide, backend>>

\* `Status Change: ${newStatus}`
statusChange(newStatus) ==
    CASE newStatus = "Active"  -> "Status Change: Active"
      [] newStatus = "Dormant" -> "Status Change: Dormant"
      [] newStatus = "Closed"  -> "Status Change: Closed"

\* the movement changeStatus logs: `file` is the promise updateFile returned,
\* and its currentCustodian is undefined
statusMovement(fileId, newStatus) ==
    newMovement([fileId        |-> fileId,
                 fromCustodian |-> Undefined,
                 toCustodian   |-> Undefined,
                 purpose       |-> statusChange(newStatus)])

\* FileManager.changeStatus: the file takes the status, the movement is
\* logged, and logMovement gives the file the movement's toCustodian
changeStatus(fileId, newStatus) ==
    /\ Len(movements) < MaxMovements
    /\ IF ~requirePermission("updateFileStatus")
       THEN Fail("changeStatus", permissionError)
       ELSE IF newStatus \notin FILE_STATUSES
       THEN Fail("changeStatus", "Invalid status")
       ELSE /\ movements' = Append(movements, statusMovement(fileId, newStatus))
            /\ files' = updateFile(
                   updateFileWith(files, fileId, [status |-> newStatus]),
                   fileId, statusMovement(fileId, newStatus).toCustodian)
            /\ send([kind |-> "logMovement",
                     body |-> statusMovement(fileId, newStatus)])
            /\ Succeed("changeStatus")
    /\ UNCHANGED <<currentUser, clock, alertSide, backend>>

\* FileManager.linkDocument: one more linked digital file
linkDocument(fileId) ==
    /\ hasFile(fileId) => getFile(fileId).linkedDigitalFiles < MaxLinked
    /\ IF ~requirePermission("uploadDocuments")
       THEN Fail("linkDocument", permissionError)
       ELSE IF ~hasFile(fileId)
       THEN Fail("linkDocument", "File not found")
       ELSE /\ files' = updateFileWith(files, fileId,
                   [linkedDigitalFiles |-> getFile(fileId).linkedDigitalFiles + 1])
            /\ Succeed("linkDocument")
            /\ UNCHANGED <<movements, net>>
    /\ UNCHANGED <<currentUser, clock, alertSide, backend>>

\* the partner at work on file F1 within one hour: transfers, metadata,
\* status, documents, a deadline, acknowledgments and scans
MetadataFiles == {"F1", UnknownFile}
MetadataUpdates == {[status |-> "Dormant"], [currentCustodian |-> "U3"]}
StatusInputs == {"Closed", "Archived"}
MetadataDueDates == {26}
MetadataIds == {0}

InitMetadata ==
    /\ InitStore
    /\ InitServer
    /\ currentUser = "U3"
    /\ online = FALSE

NextMetadata ==
    \/ \E u \in UserIds : transferFile("F1", u, "Filing")
    \/ \E f \in MetadataFiles, updates \in MetadataUpdates :
          FileManager_updateFile(f, updates)
    \/ \E f \in MetadataFiles, newStatus \in StatusInputs :
          changeStatus(f, newStatus)
    \/ \E f \in MetadataFiles : linkDocument(f)
    \/ \E due \in MetadataDueDates : createDeadline("F1", due)
    \/ \E id \in MetadataIds : completeDeadline(id)
    \/ \E id \in MetadataIds : MovementTracker_acknowledgeReceipt(id)
    \/ runAlertCheck

SpecMetadata == InitMetadata /\ [][NextMetadata]_vars

custodiansKept ==
    /\ Len(files') = Len(files)
    /\ \A i \in DOMAIN files :
          files'[i].currentCustodian = files[i].currentCustodian

\* a step of transferFile or of the movement form that succeeds
transferStep ==
    /\ Len(movements') = Len(movements) + 1
    /\ result'.op \in {"transferFile", "handleMovementSubmit"}
    /\ result'.success

\* C23: every file is with a known user, and a file's currentCustodian
\* changes only in a transfer that appends a movement: updateFile,
\* changeStatus, linkDocument, the deadline operations, acknowledgments and
\* scans leave the currentCustodian of every file as it was.
C23_CustodianChangesByTransferOnly ==
    /\ [](\A i \in DOMAIN files : files[i].currentCustodian \in UserIds)
    /\ [][transferStep \/ custodiansKept]_vars

----------------------------------------------------------------------------
(* Acknowledgments and the backend *)

\* one session, the partner's, transferring F1 and acknowledging, while the
\* server handles the requests and the session synchronises
NextAcknowledge ==
    \/ Session
    \/ /\ Cardinality(net) < MaxInFlight
       /\ \E id \in MovementIdInputs : MovementTracker_acknowledgeReceipt(id)
    \/ \E t \in Instants : t <= LedgerHorizon /\ Tick(t)
    \/ \E req \in net : postMovements(req)
    \/ \E req \in net : postAcknowledge(req)
    \/ syncWithBackend_start
    \/ getFiles
    \/ getMovements
    \/ syncWithBackend_done

SpecAcknowledge == InitBackend /\ [][NextAcknowledge]_vars

\* C24: a movement of the local log that is acknowledged stays acknowledged
\* through every later step, a synchronisation with the backend included.
C24_AcknowledgedStays ==
    [][\A i \in DOMAIN movements, j \in DOMAIN movements' :
          (/\ movements[i].acknowledged
           /\ movements[i].movementId = movements'[j].movementId
           /\ onlyOfItsId(movements, i)
           /\ onlyOfItsId(movements', j))
          => movements'[j].acknowledged]_vars

----------------------------------------------------------------------------
(* Severity *)

\* the days a file has been with its custodian, for a file with movements
daysHeldNow(fileId) == daysHeld(clock - lastMovement(fileId).timestamp)

overdueSeverity(fileId) ==
    IF daysHeldNow(fileId) >= 14 THEN "critical" ELSE "warning"

upcomingSeverity(days) ==
    CASE days = 1 -> "critical"
      [] days = 3 -> "warning"
      [] days = 7 -> "info"
      [] OTHER    -> "none"

\* the Pending deadlines an alert may be of: one, unless two deadlines of a
\* file were created in the same instant
deadlinesOf(a) ==
    {k \in DOMAIN pendingDeadlines :
        /\ pendingDeadlines[k].fileId = a.fileId
        /\ pendingDeadlines[k].deadlineId = a.deadlineId}

\* the alert at index j of `al` has the severity of the condition now
severityIsCurrent(al, j) ==
    /\ (/\ al[j].type = "file_overdue_at_custodian"
        /\ movementsOf(movements, al[j].fileId) # {})
       => al[j].severity = overdueSeverity(al[j].fileId)
    /\ al[j].type = "deadline_upcoming" =>
          \A k \in deadlinesOf(al[j]) :
              (/\ Cardinality(deadlinesOf(al[j])) = 1
               /\ CeilDays(pendingDeadlines[k].dueDate - clock) \in {7, 3, 1}) =>
                  al[j].severity =
                      upcomingSeverity(CeilDays(pendingDeadlines[k].dueDate - clock))

----------------------------------------------------------------------------
(* Identifiers *)

\* C26: no two movements of the log share a movementId, also when two are
\* logged in the same instant of the clock.
C26_MovementIdsUnique ==
    \A i, j \in DOMAIN movements :
        movements[i].movementId = movements[j].movementId => i = j

\* the partner registering files while a firm owner deletes files on the
\* server and the session synchronises
NextRegistration ==
    \/ /\ Cardinality(net) < MaxInFlight
       /\ \E custodian \in {"U1", ""} : registerFile(custodian)
    \/ \E req \in net : postFiles(req)
    \/ \E reply \in net : createFile_registered(reply)
    \/ \E req \in net : postMovements(req)
    \/ \E f \in FileIds : deleteFile(f)
    \/ syncWithBackend_start
    \/ getFiles
    \/ getMovements
    \/ syncWithBackend_done

SpecRegistration == InitBackend /\ [][NextRegistration]_vars

\* C27: no two files of the local store share a fileId, whatever the order
\* of registrations, deletions on the server and synchronisations.
C27_FileIdsUnique ==
    \A i, j \in DOMAIN files : files[i].fileId = files[j].fileId => i = j

----------------------------------------------------------------------------
(* The records over time *)

\* the server process started again: initDatabase creates the tables that
\* are not there and seedInitialData deletes the rows of all of them
initDatabase ==
    /\ ~serverUp
    /\ serverUp' = TRUE
    /\ srvFiles' = [f \in FileIds |-> Absent]
    /\ srvMovements' = <<>>
    /\ UNCHANGED <<local, online, net, sync, channel, access>>

NextRecords ==
    \/ Session
    \/ \E t \in Instants : t <= LedgerHorizon /\ Tick(t)
    \/ Server
    \/ Sync
    \/ initDatabase

SpecRecords == InitBackend /\ [][NextRecords]_vars

idsOf(records) == {records[i].movementId : i \in DOMAIN records}

\* C28: no step removes a record: the movement ids of the local log and of
\* the server's table, and the deadline ids of the local store, only grow.
C28_RecordsOnlyGrow ==
    [][/\ idsOf(movements) \subseteq idsOf(movements')
       /\ idsOf(srvMovements) \subseteq idsOf(srvMovements')
       /\ {deadlines[i].deadlineId : i \in DOMAIN deadlines}
             \subseteq {deadlines'[i].deadlineId : i \in DOMAIN deadlines'}]_vars

----------------------------------------------------------------------------
(* Closed files *)

\* the partner closes files and files are transferred, checked in and
\* checked out, as users log in and out
CloseInputs == {"Closed"}

NextClosed ==
    \/ \E u \in UserIds : login(u)
    \/ logout
    \/ \E f \in FileIds, newStatus \in CloseInputs : changeStatus(f, newStatus)
    \/ \E f \in FileIds, u \in UserIds, p \in PurposeInputs : transferFile(f, u, p)
    \/ \E f \in FileIds \cup {UnknownFile} : checkInFile(f)
    \/ \E f \in FileIds, u \in UserIds, p \in PurposeInputs : checkOutFile(f, u, p)

SpecClosed == Init /\ [][NextClosed]_vars

\* a call of transferFile, checkInFile or checkOutFile for the file
transferOf(fileId) ==
    \/ \E u \in UserIds, p \in PurposeInputs : transferFile(fileId, u, p)
    \/ checkInFile(fileId)
    \/ \E u \in UserIds, p \in PurposeInputs : checkOutFile(fileId, u, p)

\* C29: a file that is Closed gets no further movement and keeps its
\* currentCustodian; transferFile, checkInFile and checkOutFile called for
\* it return a failure.
C29_ClosedFilesDoNotMove ==
    [][\A i \in DOMAIN files :
          files[i].status = "Closed" =>
              /\ files'[i].currentCustodian = files[i].currentCustodian
              /\ movementsOf(movements', files[i].fileId)
                    = movementsOf(movements, files[i].fileId)
              /\ transferOf(files[i].fileId) => ~result'.success]_vars

----------------------------------------------------------------------------
(* Recipients *)

\* transfers to every kind of recipient: active, inactive and unknown
NextRecipients ==
    \/ \E u \in UserIds : login(u)
    \/ logout
    \/ \E f \in FileIds, u \in UserIds \cup InactiveUsers \cup {UnknownUser},
          p \in PurposeInputs : transferFile(f, u, p)
    \/ \E t \in Instants : t <= LedgerHorizon /\ Tick(t)

SpecRecipients == Init /\ [][NextRecipients]_vars

\* C30: transferFile to a user who is known but not active returns a failure
\* and appends no movement, and the recipient of every movement is a known,
\* active user.
C30_InactiveRecipientRefused ==
    /\ [](\A i \in DOMAIN movements : movements[i].toCustodian \in UserIds)
    /\ [][\A f \in FileIds, u \in InactiveUsers, p \in PurposeInputs :
            transferFile(f, u, p) =>
                ~result'.success /\ movements' = movements]_vars

----------------------------------------------------------------------------
(* What a scan writes *)

\* C31: a scan leaves the files, the movements and the deadlines as they
\* were, and every alert that was there before it is there after it, at the
\* same place and with the same fields: a scan only adds alerts at the end.
C31_ScanOnlyAddsAlerts ==
    [][runAlertCheck =>
          /\ files' = files
          /\ movements' = movements
          /\ deadlines' = deadlines
          /\ Len(alerts') >= Len(alerts)
          /\ SubSeq(alerts', 1, Len(alerts)) = alerts]_vars

\* a scan has just ended that found a dismissed request and an overdue
\* warning of the day before, with F1 now held for 14 days, and added the
\* escalation after them
C31_Witness ==
    /\ result.op = "runAlertCheck"
    /\ movementsOf(movements, "F1") # {}
    /\ daysHeldNow("F1") >= 14
    /\ \E i, j, k \in DOMAIN alerts :
          /\ i < k /\ j < k
          /\ alerts[i].type = "file_request"
          /\ alerts[i].dismissed
          /\ alerts[j].type = "file_overdue_at_custodian"
          /\ alerts[j].severity = "warning"
          /\ alerts[k].type = "escalation"
          /\ ~alerts[k].dismissed

----------------------------------------------------------------------------
(* The unacknowledged-movement pass *)

\* transfers logged at hours 0 and 1, acknowledged or not, and scans run at
\* hours 0, 1 and 24
NextPending ==
    \/ \E u \in UserIds : login(u)
    \/ \E f \in FileIds, u \in UserIds, p \in PurposeInputs : transferFile(f, u, p)
    \/ \E id \in MovementIdInputs : MovementTracker_acknowledgeReceipt(id)
    \/ \E id \in 1..MaxAlerts : dismissAlert(id)
    \/ runAlertCheck
    \/ \E t \in Instants : Tick(t)

SpecPending == Init /\ [][NextPending]_vars

\* the movement is one the pass alerts on at the hour `now`
awaited(m, now) ==
    /\ ~m.acknowledged
    /\ now - m.timestamp >= AcknowledgeWithinHours
    /\ hasFile(m.fileId)

\* C32: after a scan, every movement not acknowledged, at least 24 hours
\* old and of a file in the store has an active movement_unacknowledged
\* alert of severity warning for its recipient, and every
\* movement_unacknowledged alert the scan has added is for the file and the
\* recipient of such a movement.
C32_UnacknowledgedAfterADay ==
    LET after == runAlertCheckOn(alerts)
    IN  /\ \A i \in DOMAIN movements :
              awaited(movements[i], clock) =>
                  \E j \in activeAlerts(after) :
                      /\ after[j].type = "movement_unacknowledged"
                      /\ after[j].severity = "warning"
                      /\ after[j].fileId = movements[i].fileId
                      /\ after[j].targetUserId = movements[i].toCustodian
        /\ \A j \in (Len(alerts) + 1)..Len(after) :
              after[j].type = "movement_unacknowledged" =>
                  \E i \in DOMAIN movements :
                      /\ awaited(movements[i], clock)
                      /\ after[j].fileId = movements[i].fileId
                      /\ after[j].targetUserId = movements[i].toCustodian

\* a scan has just ended at hour 24 over a transfer of hour 0 and a transfer
\* of hour 1 to someone else, neither acknowledged: the first has its alert,
\* the second has none
C32_Witness ==
    /\ result.op = "runAlertCheck"
    /\ clock = 24
    /\ Len(movements) = 2
    /\ movements[1].timestamp = 0 /\ ~movements[1].acknowledged
    /\ movements[2].timestamp = 1 /\ ~movements[2].acknowledged
    /\ movements[2].toCustodian # movements[1].toCustodian
    /\ activeWith(alerts, "movement_unacknowledged", movements[1].fileId,
                  movements[1].toCustodian) # {}
    /\ \A j \in DOMAIN alerts :
          alerts[j].type = "movement_unacknowledged" =>
              alerts[j].targetUserId = movements[1].toCustodian

----------------------------------------------------------------------------
(* The bottleneck report *)

\* logs as a synchronisation leaves them, newest first: F1 moved 13 and then
\* 4 days ago; F1 moved 4 days ago and F2 13 days ago; F2 moved 11 hours ago
BottleneckLogs ==
    {<<Backdated("F1", "U1", 96), Backdated("F1", "U2", 312)>>,
     <<Backdated("F1", "U1", 96), Backdated("F2", "U2", 312)>>,
     <<Backdated("F2", "U2", 11)>>}

BottleneckThresholds == {1, 4, 13}

StatusUpdates == {[status |-> "Dormant"], [status |-> "Closed"]}

InitBottlenecks ==
    /\ files = RegisteredFiles
    /\ movements \in BottleneckLogs
    /\ InitRest
    /\ InitServer
    /\ currentUser = Null
    /\ online = FALSE

NextBottlenecks ==
    \/ \E u \in UserIds : login(u)
    \/ \E f \in FileIds, u \in UserIds, p \in PurposeInputs : transferFile(f, u, p)
    \/ \E f \in FileIds, updates \in StatusUpdates : FileManager_updateFile(f, updates)
    \/ \E thresholdDays \in BottleneckThresholds :
          Reports_getBottleneckReport(thresholdDays)
    \/ \E t \in Instants : Tick(t)

SpecBottlenecks == InitBottlenecks /\ [][NextBottlenecks]_vars

\* the hours since the newest movement of the file, by timestamp
hoursHeld(fileId) ==
    clock - MaxOf({movements[i].timestamp : i \in movementsOf(movements, fileId)})

\* the whole number of days nearest to those hours, a half day counting up
nearestDays(hours) ==
    CHOOSE d \in (0 - 1)..(MaxClock \div HoursPerDay + 14) :
        /\ 2 * hours >= (2 * d - 1) * HoursPerDay
        /\ 2 * hours < (2 * d + 1) * HoursPerDay

\* the files the report is to list for a threshold
heldSince(thresholdDays) ==
    {i \in DOMAIN files :
        /\ files[i].status = "Active"
        /\ movementsOf(movements, files[i].fileId) # {}
        /\ nearestDays(hoursHeld(files[i].fileId)) >= thresholdDays}

\* C33: for every threshold, getBottleneckReport lists once each the Active
\* files with a movement whose days held, rounded from the newest movement
\* by timestamp, reach the threshold, and no other file; each entry carries
\* those days, and the entries come in descending order of them.
C33_ReportListsHeldFiles ==
    \A thresholdDays \in BottleneckThresholds :
        LET report == getBottleneckReport(thresholdDays, clock)
        IN  /\ {report[k].file : k \in DOMAIN report}
                  = {files[i] : i \in heldSince(thresholdDays)}
            /\ Len(report) = Cardinality(heldSince(thresholdDays))
            /\ \A k \in DOMAIN report :
                  /\ report[k].daysHeld
                        = nearestDays(hoursHeld(report[k].file.fileId))
                  /\ report[k].file.status = "Active"
            /\ \A j, k \in DOMAIN report :
                  j < k => report[j].daysHeld >= report[k].daysHeld

\* a report has just been made that lists F2, held longer, before F1
C33_Witness ==
    /\ result.op = "getBottleneckReport"
    /\ Len(result.bottlenecks) = 2
    /\ result.bottlenecks[1].file.fileId = "F2"
    /\ result.bottlenecks[2].file.fileId = "F1"
    /\ result.bottlenecks[1].daysHeld > result.bottlenecks[2].daysHeld

----------------------------------------------------------------------------
(* The location warning *)

\* deadlines added and scans run on a store that synchronisations refill
\* from the server
NextLocation ==
    \/ \E f \in FileIds, due \in DueDates : createDeadline(f, due)
    \/ runAlertCheck
    \/ syncWithBackend_start
    \/ getFiles
    \/ getMovements
    \/ syncWithBackend_done

SpecLocation == InitDismissals /\ [][NextLocation]_vars

\* a Pending deadline of a file in the store, at a warning threshold, whose
\* file is with somebody who is not one of its assigned advocates
misplaced(d) ==
    /\ d.status = "Pending"
    /\ hasFile(d.fileId)
    /\ CeilDays(d.dueDate - clock) \in deadlineWarningDays
    /\ getFile(d.fileId).currentCustodian
          \notin Range(getFile(d.fileId).assignedAdvocates.ids)

\* C34: after a scan, every Pending deadline at 7, 3 or 1 days whose file is
\* not with one of its assigned advocates, a file with no advocate included,
\* has an active file_location_warning of severity warning for the file's
\* custodian, and every file_location_warning the scan has added is for the
\* file and custodian of such a deadline.
C34_LocationWarning ==
    LET after == runAlertCheckOn(alerts)
    IN  /\ \A i \in DOMAIN deadlines :
              misplaced(deadlines[i]) =>
                  \E j \in activeAlerts(after) :
                      /\ after[j].type = "file_location_warning"
                      /\ after[j].severity = "warning"
                      /\ after[j].fileId = deadlines[i].fileId
                      /\ after[j].targetUserId
                            = getFile(deadlines[i].fileId).currentCustodian
        /\ \A j \in (Len(alerts) + 1)..Len(after) :
              after[j].type = "file_location_warning" =>
                  \E i \in DOMAIN deadlines :
                      /\ misplaced(deadlines[i])
                      /\ after[j].fileId = deadlines[i].fileId
                      /\ after[j].targetUserId
                            = getFile(deadlines[i].fileId).currentCustodian

----------------------------------------------------------------------------
(* Local transfers and synchronisation *)

\* C36: a synchronisation that completes keeps every movement of the local
\* log, under its movementId and with its file and recipient, and keeps
\* every file of the store with the custodian it has there, also when its
\* GET responses were produced before the POST of a local transfer reached
\* the server.
C36_SyncKeepsLocalTransfers ==
    [][(sync.pc = "fetching" /\ sync'.pc = "idle") =>
          /\ \A i \in DOMAIN movements : \E j \in DOMAIN movements' :
                /\ movements'[j].movementId = movements[i].movementId
                /\ movements'[j].fileId = movements[i].fileId
                /\ movements'[j].toCustodian = movements[i].toCustodian
          /\ \A i \in DOMAIN files : \E j \in DOMAIN files' :
                /\ files'[j].fileId = files[i].fileId
                /\ files'[j].currentCustodian = files[i].currentCustodian]_vars

----------------------------------------------------------------------------
(* Pushes *)

\* one session logging transfers while browsers connect, authenticate and
\* disconnect, and the pushes they get make them synchronise
NextPushes ==
    \/ Session
    \/ \E t \in Instants : t <= LedgerHorizon /\ Tick(t)
    \/ \E req \in net : postMovements(req)
    \/ \E s \in SocketIds : ws_connection(s)
    \/ \E s \in SocketIds, u \in SocketUsers : ws_message(s, u)
    \/ \E s \in SocketIds : ws_close(s)
    \/ \E msg \in pushed : WSClient_handleMessage(msg)
    \/ getFiles
    \/ getMovements
    \/ syncWithBackend_done

SpecPushes == InitBackend /\ [][NextPushes]_vars

\* what the client and the server keep: the local lists and the tables
stored == <<files, movements, deadlines, alerts, srvFiles, srvMovements>>

\* the transfer a push tells of is in the movements table after the step,
\* and the files table has the file with the recipient
announcesCommitted(msg) ==
    /\ msg.type = "movement_received" =>
          \E i \in DOMAIN srvMovements' :
              /\ srvMovements'[i].movementId = msg.movementId
              /\ srvMovements'[i].fileId = msg.fileId
              /\ srvFiles'[msg.fileId] = srvMovements'[i].toCustodian
              /\ sockets[msg.socket].userId = srvMovements'[i].toCustodian
    /\ msg.type = "movement_logged" =>
          \E i \in DOMAIN srvMovements' :
              /\ srvMovements'[i].fileId = msg.fileId
              /\ srvMovements'[i].toCustodian = msg.toCustodian
              /\ srvFiles'[msg.fileId] = msg.toCustodian

----------------------------------------------------------------------------
(* The registry of sockets *)

\* the user has an open socket that has sent its auth message
authenticated(u) ==
    \E s \in SocketIds : sockets[s].state = "open" /\ sockets[s].userId = u

\* C37: every user with an open socket that has sent its auth message has
\* an open socket in the clients map, whatever the order in which sockets
\* of the same user authenticated and closed.
C37_RegistryHoldsOpenSocket ==
    \A u \in SocketUsers :
        authenticated(u) =>
            /\ clients[u] # Absent
            /\ sockets[clients[u]].state = "open"

----------------------------------------------------------------------------
(* Access to the API: the tokens of src/server/server.js *)

\* the accounts that log in: an advocate, a partner who has enabled the
\* second factor, and an account that is not active
LoginUsers == {"U2", "U3", "U4"}
TwoFactorUsers == {"U3"}

MaxTokens == 3

\* expiresIn '5m', over before the next hour, and '24h'
TempTokenLife == 1
TokenLife     == 24

\* the paths requests ask for: the two that are never checked, a route of
\* the API and a page outside it
Paths == {"/api/auth/login", "/api/auth/2fa/login", "/api/files", "/login"}

\* a token the server's secret did not sign
ForgedToken == [userId |-> "U3", pending2FA |-> FALSE, exp |-> 0 - 1]

\* jwt.verify: the signature is the server's and the token has not expired
verify(token) == token \in tokens /\ clock < token.exp

\* authenticateToken: "next" where the request goes on to its route
authenticateToken(path, token) ==
    IF path \in {"/api/auth/login", "/api/auth/signup"}
    THEN [path |-> path, status |-> "next", user |-> NoToken]
    ELSE IF path \notin {"/api/auth/2fa/login", "/api/files"}
    THEN [path |-> path, status |-> "next", user |-> NoToken]
    ELSE IF path = "/api/auth/2fa/login"
    THEN [path |-> path, status |-> "next", user |-> NoToken]
    ELSE IF token = NoToken
    THEN [path |-> path, status |-> "401", user |-> NoToken]
    ELSE IF ~verify(token)
    THEN [path |-> path, status |-> "403", user |-> NoToken]
    ELSE [path |-> path, status |-> "next", user |-> token]

\* a request for a path, with the token of its Authorization header or
\* cookie
request(path, token) ==
    /\ serverUp
    /\ admitted' = authenticateToken(path, token)
    /\ UNCHANGED <<local, tables, channel, tokens>>

\* an exception nobody catches: the process exits
exits ==
    /\ serverUp' = FALSE
    /\ net' = {}
    /\ sockets' = closeAll
    /\ clients' = noClients
    /\ UNCHANGED <<local, online, srvFiles, srvMovements, sync, pushed, tokens>>

\* POST /api/auth/login with the email of an account.  The branch of a
\* wrong password logs `userId`, a name the handler does not declare: the
\* ReferenceError is thrown in the callback of db.get
postAuthLogin(user, passwordMatch) ==
    /\ serverUp
    /\ Cardinality(tokens) < MaxTokens
    /\ admitted' = authenticateToken("/api/auth/login", NoToken)
    /\ IF user \notin UserIds
       THEN UNCHANGED <<local, tables, channel, tokens>>
       ELSE IF ~passwordMatch
       THEN exits
       ELSE /\ tokens' = tokens \cup
                  {IF user \in TwoFactorUsers
                   THEN [userId |-> user, pending2FA |-> TRUE,
                         exp |-> clock + TempTokenLife]
                   ELSE [userId |-> user, pending2FA |-> FALSE,
                         exp |-> clock + TokenLife]}
            /\ UNCHANGED <<local, tables, channel>>

\* POST /api/auth/2fa/login
postAuth2faLogin(tempToken, codeValid) ==
    /\ serverUp
    /\ Cardinality(tokens) < MaxTokens
    /\ admitted' = authenticateToken("/api/auth/2fa/login", NoToken)
    /\ tokens' = IF /\ tempToken # NoToken
                    /\ verify(tempToken)
                    /\ tempToken.pending2FA
                    /\ codeValid
                 THEN tokens \cup {[userId |-> tempToken.userId,
                                    pending2FA |-> FALSE,
                                    exp |-> clock + TokenLife]}
                 ELSE tokens
    /\ UNCHANGED <<local, tables, channel>>

\* accounts logging in, with and without the second factor, and requests
\* made with the tokens they were given, with none and with a forged one
NextAccess ==
    \/ \E u \in LoginUsers, passwordMatch \in BOOLEAN : postAuthLogin(u, passwordMatch)
    \/ \E t \in tokens \cup {NoToken, ForgedToken}, codeValid \in BOOLEAN :
          postAuth2faLogin(t, codeValid)
    \/ \E path \in Paths, t \in tokens \cup {NoToken, ForgedToken} :
          request(path, t)
    \/ \E t \in Instants : Tick(t)

SpecAccess == Init /\ [][NextAccess]_vars

\* C38: a request that authenticateToken lets through to a route of the
\* API it protects, with the token of a user who has the second factor
\* enabled, carries a token of /api/auth/2fa/login and never the temporary
\* token (pending2FA) of /api/auth/login.
C38_SecondFactorNotSkipped ==
    (/\ admitted.status = "next"
     /\ admitted.path = "/api/files"
     /\ admitted.user.userId \in TwoFactorUsers)
        => ~admitted.user.pending2FA

====
